---- MODULE Spec2Model ----
(***************************************************************************)
(* Model of gauth: the browser-login reverse proxy (server/proxy.go), the  *)
(* credential exchange client (auth/auth.go), the token API server, the    *)
(* device check-in client (checkin/checkin.go) and the command-line        *)
(* dispatch (main).  Go strings are TLA+ strings; the string helpers below *)
(* compute what the Go library functions compute.                          *)
(***************************************************************************)
EXTENDS Integers, Sequences, FiniteSets, TLC

(* ------------------------------ bounds -------------------------------- *)

\* concurrent /glogin requests in one login session
NumHandlers == 2
\* channels handed out by ProxyState.Subscribe
MaxSubs == 1
\* /glogin requests running next to API traffic
ApiHandlers == 1
\* concurrent /api/token requests
NumTokenReqs == 1
\* requests served by the static-resource proxy
MaxStatic == 2
\* width of a machine word: device identifiers and varints (stands for the 64 bits of uint64)
WordBits == 16
\* most items given to a repeated protobuf field
MaxItems == 3
\* most lines in the body of an /auth response
MaxLines == 2
\* most URLs in a rewritten body
MaxUrls == 2
\* calls made to the Android token provider
MaxCalls == 1
\* upstream answers lined up for one proxied request: the first, and those a
\* client that followed redirects would go on to fetch
MaxHops == 2
\* clicks and page scripts that ask for the cookies during one login
MaxRequests == 3

Handlers == 1..NumHandlers
TokenReqs == 1..NumTokenReqs

(* ------------------------- Go strings package ------------------------- *)

\* strings.HasPrefix
HasPrefix(s, p) == Len(s) >= Len(p) /\ SubSeq(s, 1, Len(p)) = p

\* strings.HasSuffix
HasSuffix(s, p) == Len(s) >= Len(p) /\ SubSeq(s, Len(s) - Len(p) + 1, Len(s)) = p

\* strings.TrimPrefix
TrimPrefix(s, p) == IF HasPrefix(s, p) THEN SubSeq(s, Len(p) + 1, Len(s)) ELSE s

\* strings.Index: 0-based position of the first occurrence, -1 if none
Index(s, sub) ==
    LET hits == {i \in 0..(Len(s) - Len(sub)) : SubSeq(s, i + 1, i + Len(sub)) = sub}
    IN  IF hits = {} THEN -1 ELSE CHOOSE i \in hits : \A j \in hits : i <= j

\* strings.Contains
Contains(s, sub) == Index(s, sub) >= 0

\* strings.Split
RECURSIVE Split(_, _)
Split(s, sep) ==
    LET i == Index(s, sep)
    IN  IF i < 0 THEN <<s>>
        ELSE <<SubSeq(s, 1, i)>> \o Split(SubSeq(s, i + Len(sep) + 1, Len(s)), sep)

\* strings.Join
RECURSIVE Join(_, _)
Join(parts, sep) ==
    IF parts = <<>> THEN ""
    ELSE IF Len(parts) = 1 THEN parts[1]
    ELSE parts[1] \o sep \o Join(Tail(parts), sep)

\* strings.Replace(s, old, new, 1)
ReplaceFirst(s, old, new) ==
    LET i == Index(s, old)
    IN  IF i < 0 THEN s
        ELSE SubSeq(s, 1, i) \o new \o SubSeq(s, i + Len(old) + 1, Len(s))

\* strings.ReplaceAll (old is never empty here)
RECURSIVE ReplaceAll(_, _, _)
ReplaceAll(s, old, new) ==
    LET i == Index(s, old)
    IN  IF i < 0 THEN s
        ELSE SubSeq(s, 1, i) \o new
                 \o ReplaceAll(SubSeq(s, i + Len(old) + 1, Len(s)), old, new)

IsSpace(c) == c \in {" ", "\t", "\n", "\r"}

\* strings.TrimSpace
RECURSIVE TrimSpace(_)
TrimSpace(s) ==
    IF s = "" THEN s
    ELSE IF IsSpace(SubSeq(s, 1, 1)) THEN TrimSpace(SubSeq(s, 2, Len(s)))
    ELSE IF IsSpace(SubSeq(s, Len(s), Len(s))) THEN TrimSpace(SubSeq(s, 1, Len(s) - 1))
    ELSE s

Uppers == "ABCDEFGHIJKLMNOPQRSTUVWXYZ"
Lowers == "abcdefghijklmnopqrstuvwxyz"

LowerChar(c) ==
    LET hit == {i \in 1..Len(Uppers) : SubSeq(Uppers, i, i) = c}
    IN  IF hit = {} THEN c ELSE LET i == CHOOSE i \in hit : TRUE IN SubSeq(Lowers, i, i)

\* strings.ToLower
RECURSIVE ToLower(_)
ToLower(s) ==
    IF s = "" THEN s ELSE LowerChar(SubSeq(s, 1, 1)) \o ToLower(SubSeq(s, 2, Len(s)))

\* strings.EqualFold
EqualFold(s, t) == ToLower(s) = ToLower(t)

Digits == "0123456789abcdef"

\* fmt.Sprintf("%d", n) and fmt.Sprintf("%x", n) for n >= 0
RECURSIVE FormatBase(_, _)
FormatBase(n, base) ==
    IF n < base THEN SubSeq(Digits, n + 1, n + 1)
    ELSE FormatBase(n \div base, base) \o SubSeq(Digits, (n % base) + 1, (n % base) + 1)

FormatDec(n) == FormatBase(n, 10)
FormatHex(n) == FormatBase(n, 16)

(* ------------------------------ state --------------------------------- *)

VARIABLES
    cmd,          \* os.Args[1]: the command this process runs
    cfg,          \* *config.Config shared by every handler and task
    disk,         \* the config LoadFrom would read back from gauth_config.yaml
    captured,     \* ProxyState.captured
    oauthToken,   \* ProxyState.oauthToken
    email,        \* ProxyState.email
    error,        \* ProxyState.error
    listeners,    \* ProxyState.listeners: number of items buffered in each channel
    setTokenCalls,\* history: number of SetToken calls made so far
    hpc,          \* googleProxyHandler: position of each request
    upstream,     \* googleProxyHandler: resp returned by client.Do
    cand,         \* googleProxyHandler: oauth_token values still to be looked at
    lastOut,      \* the response most recently written to a browser by the proxy
    ex,           \* exchangeToken goroutines, one slot per spawning request
    tpc,          \* /api/token handler: position of each request
    treq,         \* /api/token handler: req after defaults
    tform,        \* FetchServiceToken: the form that was POSTed
    tout,         \* /api/token handler: status and TokenResponse written
    cli,          \* the command-line commands (login, fetch, checkin)
    static,       \* staticProxyHandler: the requests served so far
    call,         \* a library function under test: its name, argument and return value
    prefs,        \* ApiSecurityManager.prefs (SharedPreferences token_manager_security)
    bundle        \* TokenManagerProvider.call: the Bundle returned to the last caller

proxyVars == <<captured, oauthToken, email, error, listeners, setTokenCalls>>
handlerVars == <<hpc, upstream, cand, lastOut>>
tokenVars == <<tpc, treq, tform, tout>>
libVars == <<call, prefs, bundle>>
vars == <<cmd, cfg, disk, captured, oauthToken, email, error, listeners,
          setTokenCalls, hpc, upstream, cand, lastOut, ex, tpc, treq, tform,
          tout, cli, static, call, prefs, bundle>>

(* ------------------------------ config -------------------------------- *)

\* DefaultConfig: no registration, no account (device profile is immutable)
DefaultConfig == [AndroidID |-> "", SecurityToken |-> "", Email |-> "", MasterToken |-> ""]

\* config files an earlier run can have left behind
ConfigsOnDisk ==
    { DefaultConfig,
      [AndroidID |-> "3a", SecurityToken |-> "77", Email |-> "", MasterToken |-> ""],
      [AndroidID |-> "3a", SecurityToken |-> "77", Email |-> "old@x",
       MasterToken |-> "aas_et/m0"] }

HasRegistration(c) == c.AndroidID # "" /\ c.SecurityToken # ""

HasMasterToken(c) == c.MasterToken # "" /\ c.Email # ""

\* os.WriteFile truncates on open: a failed save leaves the old file or a
\* truncated one, which LoadFrom reads back as the defaults
SaveOutcomes(c, d) ==
    { [err |-> "", disk |-> c],
      [err |-> "open gauth_config.yaml: permission denied", disk |-> d],
      [err |-> "write gauth_config.yaml: no space left on device", disk |-> DefaultConfig] }

(* ------------------------------- auth --------------------------------- *)

NoFields == [k \in {} |-> ""]

EmptyResponse ==
    [Auth |-> "", Token |-> "", Email |-> "", Sid |-> "", LSid |-> "",
     Services |-> "", FirstName |-> "", LastName |-> "", AccountID |-> "",
     IssueAdvice |-> "", GrantedScopes |-> "", Error |-> "", RawFields |-> NoFields]

PutField(raw, key, value) ==
    [k \in (DOMAIN raw) \cup {key} |-> IF k = key THEN value ELSE raw[k]]

\* an iteration that records the pair in RawFields and fills no structured field
ParseLineRawOnly(r, rawLine) ==
    IF Index(TrimSpace(rawLine), "=") <= 0 THEN r
    ELSE [r EXCEPT !.RawFields =
              PutField(@, SubSeq(TrimSpace(rawLine), 1, Index(TrimSpace(rawLine), "=")),
                       SubSeq(TrimSpace(rawLine), Index(TrimSpace(rawLine), "=") + 2,
                              Len(TrimSpace(rawLine))))]

\* one iteration of the loop of parseAuthResponse
ParseLine(r, rawLine) ==
    LET line == TrimSpace(rawLine)
        idx  == Index(line, "=")
    IN  IF idx <= 0 THEN r
        ELSE
          LET key   == SubSeq(line, 1, idx)
              value == SubSeq(line, idx + 2, Len(line))
              r1    == [r EXCEPT !.RawFields = PutField(@, key, value)]
          IN  CASE key = "Auth"          -> [r1 EXCEPT !.Auth = value]
                [] key = "Token"         -> [r1 EXCEPT !.Token = value]
                [] key = "Email"         -> [r1 EXCEPT !.Email = value]
                [] key = "SID"           -> [r1 EXCEPT !.Sid = value]
                [] key = "LSID"          -> [r1 EXCEPT !.LSid = value]
                [] key = "services"      -> [r1 EXCEPT !.Services = value]
                [] key = "firstName"     -> [r1 EXCEPT !.FirstName = value]
                [] key = "lastName"      -> [r1 EXCEPT !.LastName = value]
                [] key = "accountId"     -> [r1 EXCEPT !.AccountID = value]
                [] key = "issueAdvice"   -> [r1 EXCEPT !.IssueAdvice = value]
                [] key = "grantedScopes" -> [r1 EXCEPT !.GrantedScopes = value]
                [] key = "Error"         -> [r1 EXCEPT !.Error = value]
                [] OTHER                 -> r1

RECURSIVE ParseLines(_, _)
ParseLines(r, lines) ==
    IF lines = <<>> THEN r ELSE ParseLines(ParseLine(r, Head(lines)), Tail(lines))

parseAuthResponse(body) ==
    ParseLines(EmptyResponse, Split(ReplaceAll(body, "\r\n", "\n"), "\n"))

\* what the /auth endpoint can answer: a transport failure, or a status and a body
AuthReplies ==
    { [neterr |-> TRUE,  status |-> 0,   body |-> ""],
      [neterr |-> FALSE, status |-> 200, body |-> "Token=aas_et/mtk1\nAuth=ya29.a1\nEmail=new@x\n"],
      [neterr |-> FALSE, status |-> 200, body |-> "Auth=ya29.a1\r\nEmail=new@x\r\n"],
      [neterr |-> FALSE, status |-> 200, body |-> "Token=aas_et/mtk1\nfirstName=N\n"],
      [neterr |-> FALSE, status |-> 200, body |-> "Email=new@x\nError=\n"],
      [neterr |-> FALSE, status |-> 403, body |-> "Error=BadAuthentication\n"] }

\* doAuthRequest from client.Do on: the parsed Response and the error text
\* ("" for a nil error); ok tells whether a Response is returned at all
doAuthRequest(reply) ==
    IF reply.neterr
    THEN [ok |-> FALSE, resp |-> EmptyResponse,
          err |-> "auth request: Post \"https://android.googleapis.com/auth\": timeout"]
    ELSE LET result == parseAuthResponse(reply.body)
         IN  IF reply.status # 200
             THEN [ok |-> TRUE, resp |-> result,
                   err |-> "auth failed: status " \o FormatDec(reply.status) \o ": "
                           \o (IF result.Error = "" THEN reply.body ELSE result.Error)]
             ELSE [ok |-> TRUE, resp |-> result, err |-> ""]

\* doAuthRequest tabulated over the replies
AuthOutcome == [reply \in AuthReplies |-> doAuthRequest(reply)]

(* ---------------------------- ProxyState ------------------------------ *)

\* make(chan struct{}, 1)
ChanCap == 1

\* a SetToken that leaves the listeners alone
SetTokenNoSend(token) ==
    /\ oauthToken' = token
    /\ captured' = TRUE
    /\ UNCHANGED listeners
    /\ setTokenCalls' = setTokenCalls + 1

\* ProxyState.SetToken, under s.mu: the send is skipped when the buffer is full
SetToken(token) ==
    /\ oauthToken' = token
    /\ captured' = TRUE
    /\ listeners' = [i \in 1..Len(listeners) |->
                        IF listeners[i] < ChanCap THEN listeners[i] + 1 ELSE listeners[i]]
    /\ setTokenCalls' = setTokenCalls + 1

\* ProxyState.SetResult, under s.mu
SetResult(e, errMsg) ==
    /\ email' = e
    /\ error' = errMsg

\* ProxyState.IsCaptured, under s.mu
IsCaptured == captured

\* a Subscribe that consumes the capture
SubscribeConsuming ==
    /\ listeners' = Append(listeners, IF captured THEN 1 ELSE 0)
    /\ captured' = FALSE
    /\ UNCHANGED <<oauthToken, email, error, setTokenCalls>>

\* a Subscribe whose channel has no buffer: its send waits for a receiver
SubscribeUnbuffered ==
    /\ ~captured
    /\ listeners' = Append(listeners, 0)
    /\ UNCHANGED <<captured, oauthToken, email, error, setTokenCalls>>

\* ProxyState.Subscribe, under s.mu
Subscribe ==
    /\ listeners' = Append(listeners, IF captured THEN 1 ELSE 0)
    /\ UNCHANGED <<captured, oauthToken, email, error, setTokenCalls>>

(* ------------------------ googleProxyHandler -------------------------- *)

\* what accounts.google.com can answer to a proxied request
UpstreamResponses ==
    { [err |-> TRUE,  status |-> 0,   cookies |-> <<>>],
      [err |-> FALSE, status |-> 302,
       cookies |-> <<"SID=s1; Domain=.google.com; Secure", "oauth_token=tA; Path=/; HttpOnly">>],
      [err |-> FALSE, status |-> 200, cookies |-> <<"oauth_token=tB; SameSite=None; secure">>],
      [err |-> FALSE, status |-> 200, cookies |-> <<"oauth_token=; Path=/">>] }

\* the inner loop over strings.Split(sc, ";"): the non-empty oauth_token values
RECURSIVE PartTokens(_)
PartTokens(parts) ==
    IF parts = <<>> THEN <<>>
    ELSE LET part  == TrimSpace(Head(parts))
             token == TrimPrefix(part, "oauth_token=")
         IN  (IF HasPrefix(part, "oauth_token=") /\ token # "" THEN <<token>> ELSE <<>>)
                 \o PartTokens(Tail(parts))

\* the values for which the handler goes on to ask state.IsCaptured(), in order
RECURSIVE CandidateTokens(_)
CandidateTokens(cookies) ==
    IF cookies = <<>> THEN <<>>
    ELSE (IF Contains(Head(cookies), "oauth_token=")
          THEN PartTokens(Split(Head(cookies), ";")) ELSE <<>>)
             \o CandidateTokens(Tail(cookies))

RECURSIVE KeepParts(_, _)
KeepParts(parts, attr) ==
    IF parts = <<>> THEN <<>>
    ELSE LET trimmed == TrimSpace(Head(parts))
         IN  (IF ~HasPrefix(ToLower(trimmed), ToLower(attr) \o "=") /\ ~EqualFold(trimmed, attr)
              THEN <<Head(parts)>> ELSE <<>>) \o KeepParts(Tail(parts), attr)

removeCookieAttr(sc, attr) == Join(KeepParts(Split(sc, ";"), attr), ";")

\* the cookie as added to the browser's response
RewriteCookie(sc) ==
    ReplaceFirst(
        removeCookieAttr(removeCookieAttr(removeCookieAttr(sc, "Domain"), "Secure"), "SameSite"),
        "; Secure", "")

RewriteCookies(cookies) == [i \in 1..Len(cookies) |-> RewriteCookie(cookies[i])]

\* the Set-Cookie processing tabulated over the upstream responses
CookieScan ==
    [r \in UpstreamResponses |->
        [cand |-> CandidateTokens(r.cookies), out |-> RewriteCookies(r.cookies)]]

NoUpstream == [err |-> FALSE, status |-> 0, cookies |-> <<>>]
NoReply == [status |-> 0, cookies |-> <<>>]

\* the locals of an exchangeToken goroutine; calls counts its SetResult calls and
\* before keeps the config as it was when the goroutine was started
NoTask ==
    [pc |-> "none", token |-> "", resp |-> EmptyResponse, masterToken |-> "",
     calls |-> 0, before |-> [cfg |-> DefaultConfig, disk |-> DefaultConfig]]

AfterCookie(rest) == IF rest = <<>> THEN "respond" ELSE "check"

\* client.Do(proxyReq) returns; the handler reaches its first shared access
ProxyRequest(h) ==
    /\ cmd = "serve"
    /\ hpc[h] = "idle"
    /\ \E r \in UpstreamResponses :
         IF r.err
         THEN /\ hpc' = [hpc EXCEPT ![h] = "done"]
              /\ lastOut' = [status |-> 502, cookies |-> <<>>]
              /\ UNCHANGED <<upstream, cand>>
         ELSE /\ upstream' = [upstream EXCEPT ![h] = r]
              /\ cand' = [cand EXCEPT ![h] = CookieScan[r].cand]
              /\ hpc' = [hpc EXCEPT ![h] = AfterCookie(CookieScan[r].cand)]
              /\ UNCHANGED lastOut
    /\ UNCHANGED <<cmd, cfg, disk, proxyVars, ex, tokenVars, cli, static, libVars>>

\* token != "" && !state.IsCaptured()
CheckCaptured(h) ==
    /\ hpc[h] = "check"
    /\ IF ~IsCaptured
       THEN /\ hpc' = [hpc EXCEPT ![h] = "set"]
            /\ UNCHANGED cand
       ELSE /\ cand' = [cand EXCEPT ![h] = Tail(@)]
            /\ hpc' = [hpc EXCEPT ![h] = AfterCookie(Tail(cand[h]))]
    /\ UNCHANGED <<cmd, cfg, disk, proxyVars, upstream, lastOut, ex, tokenVars, cli, static, libVars>>

\* state.SetToken(token); go func() { exchangeToken(cfg, state, token) }()
CaptureToken(h) ==
    /\ hpc[h] = "set"
    /\ SetToken(Head(cand[h]))
    /\ ex' = [ex EXCEPT ![h] = [NoTask EXCEPT !.pc = "calling", !.token = Head(cand[h]),
                                              !.before = [cfg |-> cfg, disk |-> disk]]]
    /\ cand' = [cand EXCEPT ![h] = Tail(@)]
    /\ hpc' = [hpc EXCEPT ![h] = AfterCookie(Tail(cand[h]))]
    /\ UNCHANGED <<cmd, cfg, disk, email, error, upstream, lastOut, tokenVars, cli, static, libVars>>

\* what the handler writes: the upstream status with the cookies rewritten
Relay(r) == [status |-> r.status, cookies |-> CookieScan[r].out]

\* a handler that waits for its exchange before it answers the browser
WriteResponseAfterExchange(h) ==
    /\ hpc[h] = "respond"
    /\ ex[h].pc \in {"none", "done"}
    /\ lastOut' = Relay(upstream[h])
    /\ hpc' = [hpc EXCEPT ![h] = "done"]
    /\ upstream' = [upstream EXCEPT ![h] = NoUpstream]
    /\ UNCHANGED <<cmd, cfg, disk, proxyVars, cand, ex, tokenVars, cli, static, libVars>>

\* the rest of the handler: cookies and headers relayed, status and body written
WriteResponse(h) ==
    /\ hpc[h] = "respond"
    /\ lastOut' = Relay(upstream[h])
    /\ hpc' = [hpc EXCEPT ![h] = "done"]
    /\ upstream' = [upstream EXCEPT ![h] = NoUpstream]
    /\ UNCHANGED <<cmd, cfg, disk, proxyVars, cand, ex, tokenVars, cli, static, libVars>>

\* some caller of state.Subscribe()
SubscribeCall ==
    /\ cmd = "serve"
    /\ Len(listeners) < MaxSubs
    /\ Subscribe
    /\ UNCHANGED <<cmd, cfg, disk, handlerVars, ex, tokenVars, cli, static, libVars>>

(* --------------------------- exchangeToken ---------------------------- *)

\* masterToken := resp.Token; if masterToken == "" { masterToken = resp.Auth }
MasterTokenOf(resp) == IF resp.Token # "" THEN resp.Token ELSE resp.Auth

\* the goroutine returns: its locals are gone
Returned(t, n) == [NoTask EXCEPT !.pc = "done", !.calls = t.calls + n]

\* an exchangeToken that goes on with whatever the response holds
ExchangeDecisionUnchecked(out) ==
    IF out.err # "" THEN [err |-> out.err, masterToken |-> ""]
    ELSE [err |-> "", masterToken |-> MasterTokenOf(out.resp)]

\* exchangeToken from the return of ExchangeOAuthForMaster to the first write of
\* cfg: the error to record ("" to go on) and the master token to store
ExchangeDecision(out) ==
    IF out.err # "" THEN [err |-> out.err, masterToken |-> ""]
    ELSE IF MasterTokenOf(out.resp) = ""
    THEN [err |-> "empty token in response: " \o out.resp.Error, masterToken |-> ""]
    ELSE [err |-> "", masterToken |-> MasterTokenOf(out.resp)]

\* auth.ExchangeOAuthForMaster returns; the error paths end in SetResult
ExchangeReturns(h) ==
    /\ ex[h].pc = "calling"
    /\ \E reply \in AuthReplies :
         LET out == AuthOutcome[reply]
             d   == ExchangeDecision(out)
         IN  IF d.err # ""
             THEN /\ SetResult("", d.err)
                  /\ ex' = [ex EXCEPT ![h] = Returned(@, 1)]
             ELSE /\ ex' = [ex EXCEPT ![h].pc = "storeToken", ![h].resp = out.resp,
                                      ![h].masterToken = d.masterToken, ![h].token = ""]
                  /\ UNCHANGED <<email, error>>
    /\ UNCHANGED <<cmd, cfg, disk, captured, oauthToken, listeners, setTokenCalls,
                   handlerVars, tokenVars, cli, static, libVars>>

\* cfg.MasterToken = masterToken
StoreMasterToken(h) ==
    /\ ex[h].pc = "storeToken"
    /\ cfg' = [cfg EXCEPT !.MasterToken = ex[h].masterToken]
    /\ ex' = [ex EXCEPT ![h].pc = "storeEmail"]
    /\ UNCHANGED <<cmd, disk, proxyVars, handlerVars, tokenVars, cli, static, libVars>>

\* cfg.Email = resp.Email
StoreEmail(h) ==
    /\ ex[h].pc = "storeEmail"
    /\ cfg' = [cfg EXCEPT !.Email = ex[h].resp.Email]
    /\ ex' = [ex EXCEPT ![h].pc = "save"]
    /\ UNCHANGED <<cmd, disk, proxyVars, handlerVars, tokenVars, cli, static, libVars>>

\* an exchangeToken whose save-failure path returns without recording a result
SaveAndRecordSilent(h) ==
    /\ ex[h].pc = "save"
    /\ \E o \in SaveOutcomes(cfg, disk) :
         /\ disk' = o.disk
         /\ IF o.err # ""
            THEN /\ UNCHANGED <<email, error>>
                 /\ ex' = [ex EXCEPT ![h] = Returned(@, 0)]
            ELSE /\ SetResult(ex[h].resp.Email, "")
                 /\ ex' = [ex EXCEPT ![h] = Returned(@, 1)]
    /\ UNCHANGED <<cmd, cfg, captured, oauthToken, listeners, setTokenCalls,
                   handlerVars, tokenVars, cli, static, libVars>>

\* err := cfg.Save(), then state.SetResult("", "save failed: ...") or
\* state.SetResult(resp.Email, "")
SaveAndRecord(h) ==
    /\ ex[h].pc = "save"
    /\ \E o \in SaveOutcomes(cfg, disk) :
         /\ disk' = o.disk
         /\ IF o.err # ""
            THEN SetResult("", "save failed: " \o o.err)
            ELSE SetResult(ex[h].resp.Email, "")
    /\ ex' = [ex EXCEPT ![h] = Returned(@, 1)]
    /\ UNCHANGED <<cmd, cfg, captured, oauthToken, listeners, setTokenCalls,
                   handlerVars, tokenVars, cli, static, libVars>>

(* ------------------------- /api/token handler ------------------------- *)

GoogleSig == "24bb24c05e47e0aefa68a58a766179d9b613a600"

KnownApps ==
    [ photos   |-> [Package |-> "com.google.android.apps.photos",
                    Scope |-> "oauth2:openid https://www.googleapis.com/auth/mobileapps.native https://www.googleapis.com/auth/photos.native"],
      youtube  |-> [Package |-> "com.google.android.youtube",
                    Scope |-> "oauth2:https://www.googleapis.com/auth/youtube"],
      gmail    |-> [Package |-> "com.google.android.gm", Scope |-> "oauth2:https://mail.google.com/"],
      drive    |-> [Package |-> "com.google.android.apps.docs",
                    Scope |-> "oauth2:https://www.googleapis.com/auth/drive"],
      calendar |-> [Package |-> "com.google.android.calendar",
                    Scope |-> "oauth2:https://www.googleapis.com/auth/calendar"],
      gms      |-> [Package |-> "com.google.android.gms", Scope |-> "ac2dm"] ]

\* the requests a client can send to /api/token
TokenRequests ==
    { [method |-> "GET",    badJSON |-> FALSE, scope |-> "photos",    app |-> "", sig |-> ""],
      [method |-> "POST",   badJSON |-> FALSE, scope |-> "oauth2:cu", app |-> "com.a", sig |-> ""],
      [method |-> "POST",   badJSON |-> TRUE,  scope |-> "",          app |-> "", sig |-> ""],
      [method |-> "GET",    badJSON |-> FALSE, scope |-> "",          app |-> "", sig |-> ""],
      [method |-> "DELETE", badJSON |-> FALSE, scope |-> "photos",    app |-> "", sig |-> ""] }

NoRequest == [scope |-> "", app |-> "", sig |-> ""]
NoForm == [sent |-> FALSE, Email |-> "", Token |-> "", service |-> "", app |-> ""]
NoAnswer ==
    [status |-> 0, token |-> "", email |-> "", tokenType |-> "", error |-> "",
     upstream |-> 0, auth |-> ""]

Answer(status, errMsg) == [NoAnswer EXCEPT !.status = status, !.error = errMsg]

\* the scope and app shortcuts and the defaults
ResolveRequest(q) ==
    LET known == q.scope \in DOMAIN KnownApps
        scope == IF known THEN KnownApps[q.scope].Scope ELSE q.scope
        app0  == IF known /\ q.app = "" THEN KnownApps[q.scope].Package ELSE q.app
    IN  [scope |-> scope,
         app   |-> IF app0 = "" THEN "com.google.android.gms" ELSE app0,
         sig   |-> IF q.sig = "" THEN GoogleSig ELSE q.sig]

\* the handler up to its call of auth.FetchServiceToken: the answer it writes
\* (status 0: none yet, it goes on to fetch)
TokenAdmission(q, c) ==
    IF q.method # "POST" /\ q.method # "GET" THEN Answer(405, "use POST or GET")
    ELSE IF ~HasMasterToken(c) THEN Answer(401, "not logged in; run 'gauth login' first")
    ELSE IF q.method = "POST" /\ q.badJSON THEN Answer(400, "invalid JSON: unexpected EOF")
    ELSE IF ResolveRequest(q).scope = ""
    THEN Answer(400, "scope is required. Try: photos, youtube, gmail, drive, or a full OAuth2 scope")
    ELSE NoAnswer

\* the form auth.FetchServiceToken builds from the config
ServiceForm(c, scope, appPackage) ==
    [sent |-> TRUE, Email |-> c.Email, Token |-> c.MasterToken,
     service |-> scope, app |-> appPackage]

\* a FetchServiceToken without its HasMasterToken check
FetchServiceTokenUnchecked(c, scope, appPackage, appSig) ==
    [err |-> "",
     form |-> [sent |-> TRUE, Email |-> c.Email, Token |-> c.MasterToken,
               service |-> scope, app |-> appPackage]]

\* auth.FetchServiceToken up to doAuthRequest: the error, or the form it POSTs
FetchServiceToken(c, scope, appPackage, appSig) ==
    IF ~HasMasterToken(c)
    THEN [err |-> "no master token; run 'gauth login' first", form |-> NoForm]
    ELSE [err |-> "", form |-> ServiceForm(c, scope, appPackage)]

\* a classification by substring instead of prefix
TokenTypeContains(auth, aes, oauth2, unknown) ==
    IF Contains(auth, "aas_et/") THEN aes
    ELSE IF Contains(auth, "ya29.") THEN oauth2
    ELSE unknown

\* the token type shown with a token
TokenType(auth, aes, oauth2, unknown) ==
    IF Len(auth) > 7 /\ SubSeq(auth, 1, 7) = "aas_et/" THEN aes
    ELSE IF Len(auth) > 5 /\ SubSeq(auth, 1, 5) = "ya29." THEN oauth2
    ELSE unknown

\* the handler after auth.FetchServiceToken has returned
TokenAnswer(out, cfgEmail) ==
    IF out.err # "" THEN Answer(500, out.err)
    ELSE IF out.resp.Auth = "" THEN Answer(500, "empty token in response")
    ELSE [NoAnswer EXCEPT !.status = 200, !.token = out.resp.Auth, !.email = cfgEmail,
                          !.tokenType = TokenType(out.resp.Auth, "aes", "oauth2", "unknown")]

\* a request arrives and is answered or admitted
TokenRequest(r) ==
    /\ cmd = "serve"
    /\ tpc[r] = "idle"
    /\ \E q \in TokenRequests :
         LET a == TokenAdmission(q, cfg)
         IN  IF a.status # 0
             THEN /\ tout' = [tout EXCEPT ![r] = a]
                  /\ tpc' = [tpc EXCEPT ![r] = "done"]
                  /\ UNCHANGED treq
             ELSE /\ treq' = [treq EXCEPT ![r] = ResolveRequest(q)]
                  /\ tpc' = [tpc EXCEPT ![r] = "fetch"]
                  /\ UNCHANGED tout
    /\ UNCHANGED <<cmd, cfg, disk, proxyVars, handlerVars, ex, tform, cli, static, libVars>>

\* auth.FetchServiceToken is called and checks cfg.HasMasterToken()
TokenFetch(r) ==
    /\ tpc[r] = "fetch"
    /\ LET f == FetchServiceToken(cfg, treq[r].scope, treq[r].app, treq[r].sig)
       IN  IF f.err # ""
           THEN /\ tout' = [tout EXCEPT ![r] = Answer(500, f.err)]
                /\ tpc' = [tpc EXCEPT ![r] = "done"]
                /\ treq' = [treq EXCEPT ![r] = NoRequest]
           ELSE /\ tpc' = [tpc EXCEPT ![r] = "send"]
                /\ UNCHANGED <<tout, treq>>
    /\ UNCHANGED <<cmd, cfg, disk, proxyVars, handlerVars, ex, tform, cli, static, libVars>>

\* auth.FetchServiceToken reads cfg into the form and posts it; the exchange
\* goroutine may have written cfg since the check
TokenSend(r) ==
    /\ tpc[r] = "send"
    /\ tform' = [tform EXCEPT ![r] = ServiceForm(cfg, treq[r].scope, treq[r].app)]
    /\ tpc' = [tpc EXCEPT ![r] = "await"]
    /\ treq' = [treq EXCEPT ![r] = NoRequest]
    /\ UNCHANGED <<cmd, cfg, disk, proxyVars, handlerVars, ex, tout, cli, static, libVars>>

\* the /auth endpoint answers and the handler writes its response
TokenReply(r) ==
    /\ tpc[r] = "await"
    /\ \E reply \in AuthReplies :
         tout' = [tout EXCEPT ![r] =
                     [TokenAnswer(AuthOutcome[reply], cfg.Email) EXCEPT
                         !.upstream = reply.status, !.auth = AuthOutcome[reply].resp.Auth]]
    /\ tpc' = [tpc EXCEPT ![r] = "done"]
    /\ UNCHANGED <<cmd, cfg, disk, proxyVars, handlerVars, ex, treq, tform, cli, static, libVars>>

(* ------------------------------ check-in ------------------------------ *)

\* a decoded field: Go type (absent = no such key) and value
Absent == [type |-> "absent", val |-> 0]
Fixed64(v) == [type |-> "uint64", val |-> v]
Varint(v) == [type |-> "int64", val |-> v]

\* the answers of the check-in endpoint: transport error, status, fields 7 and 8
CheckinReplies ==
    { [neterr |-> TRUE,  status |-> 0,   f7 |-> Absent,       f8 |-> Absent],
      [neterr |-> FALSE, status |-> 503, f7 |-> Fixed64(11),  f8 |-> Fixed64(7)],
      [neterr |-> FALSE, status |-> 200, f7 |-> Absent,       f8 |-> Fixed64(7)],
      [neterr |-> FALSE, status |-> 200, f7 |-> Fixed64(0),   f8 |-> Fixed64(7)],
      [neterr |-> FALSE, status |-> 200, f7 |-> Varint(0),    f8 |-> Absent],
      [neterr |-> FALSE, status |-> 200, f7 |-> [type |-> "string", val |-> 0], f8 |-> Fixed64(7)],
      [neterr |-> FALSE, status |-> 200, f7 |-> Fixed64(11),  f8 |-> Fixed64(7)],
      [neterr |-> FALSE, status |-> 200, f7 |-> Varint(-1),   f8 |-> Varint(5)],
      [neterr |-> FALSE, status |-> 200, f7 |-> Fixed64(2^WordBits - 1), f8 |-> Absent] }

NoCheckin == [neterr |-> FALSE, status |-> 0, f7 |-> Absent, f8 |-> Absent]

\* the type switch on a decoded field: uint64 as is, int64 converted, else 0
AsUint64(f) ==
    CASE f.type = "uint64" -> f.val
      [] f.type = "int64"  -> f.val % (2^WordBits)
      [] OTHER             -> 0

\* a Checkin that accepts whatever id the response carries
CheckinUnchecked(reply) ==
    IF reply.neterr
    THEN [err |-> "checkin request: dial tcp: i/o timeout", AndroidID |-> 0, SecurityToken |-> 0]
    ELSE IF reply.status # 200
    THEN [err |-> "checkin failed: status " \o FormatDec(reply.status) \o ": ",
          AndroidID |-> 0, SecurityToken |-> 0]
    ELSE [err |-> "", AndroidID |-> AsUint64(reply.f7), SecurityToken |-> AsUint64(reply.f8)]

\* checkin.Checkin from client.Do on
Checkin(reply) ==
    IF reply.neterr
    THEN [err |-> "checkin request: dial tcp: i/o timeout", AndroidID |-> 0, SecurityToken |-> 0]
    ELSE IF reply.status # 200
    THEN [err |-> "checkin failed: status " \o FormatDec(reply.status) \o ": ",
          AndroidID |-> 0, SecurityToken |-> 0]
    ELSE IF AsUint64(reply.f7) = 0
    THEN [err |-> "checkin response missing androidId", AndroidID |-> 0, SecurityToken |-> 0]
    ELSE [err |-> "", AndroidID |-> AsUint64(reply.f7), SecurityToken |-> AsUint64(reply.f8)]

\* doCheckin on config c with file d: the possible results
doCheckin(c, d, reply) ==
    LET result == Checkin(reply)
        c2 == [c EXCEPT !.AndroidID = FormatHex(result.AndroidID),
                        !.SecurityToken = FormatDec(result.SecurityToken)]
    IN  IF result.err # ""
        THEN {[err |-> result.err, cfg |-> c, disk |-> d]}
        ELSE {[err |-> s.err, cfg |-> c2, disk |-> s.disk] : s \in SaveOutcomes(c2, d)}

(* ---------------------------- command line ---------------------------- *)

CliCommands == {"login", "fetch", "checkin"}

\* what `gauth fetch` is given
FetchScopes == {"photos", "oauth2:cu"}

\* what the sign-in window returns: an error or the captured oauth_token
WebViewResults == {[err |-> "webview closed", OAuthToken |-> ""], [err |-> "", OAuthToken |-> "tA"]}

\* the process: position, exit code, and what it has read and sent so far
NoCli ==
    [pc |-> "start", code |-> 0, checkin |-> NoCheckin, oauth |-> "", resp |-> EmptyResponse,
     form |-> NoForm, token |-> "", tokenType |-> ""]

Exit(c, code) == [c EXCEPT !.pc = "exit", !.code = code, !.oauth = ""]

\* config.LoadFrom: the defaults overlaid with the file
LoadFrom(d) == d

\* cmdLogin from the return of ExchangeOAuthForMaster to the first write of cfg
LoginDecision(out) ==
    IF out.err # "" THEN [err |-> "Token exchange failed: " \o out.err, masterToken |-> ""]
    ELSE IF out.resp.Token = "" /\ out.resp.Auth = ""
    THEN [err |-> "No token in response. Error: " \o out.resp.Error, masterToken |-> ""]
    ELSE [err |-> "", masterToken |-> MasterTokenOf(out.resp)]

\* main starts the next command on what the last one left on disk
Run ==
    /\ cmd \in CliCommands
    /\ cli.pc = "exit"
    /\ cmd' \in CliCommands
    /\ cfg' = LoadFrom(disk)
    /\ cli' = NoCli
    /\ UNCHANGED <<disk, proxyVars, handlerVars, ex, tokenVars, static, libVars>>

CmdCheckin ==
    /\ cmd = "checkin"
    /\ cli.pc = "start"
    /\ \E reply \in CheckinReplies : \E o \in doCheckin(cfg, disk, reply) :
         /\ cfg' = o.cfg
         /\ disk' = o.disk
         /\ cli' = Exit([cli EXCEPT !.checkin = reply], IF o.err = "" THEN 0 ELSE 1)
    /\ UNCHANGED <<cmd, proxyVars, handlerVars, ex, tokenVars, static, libVars>>

\* cmdLogin step 1: check-in unless registered
LoginStart ==
    /\ cmd = "login"
    /\ cli.pc = "start"
    /\ IF HasRegistration(cfg)
       THEN /\ cli' = [cli EXCEPT !.pc = "webview"]
            /\ UNCHANGED <<cfg, disk>>
       ELSE \E reply \in CheckinReplies : \E o \in doCheckin(cfg, disk, reply) :
              /\ cfg' = o.cfg
              /\ disk' = o.disk
              /\ cli' = IF o.err = "" THEN [cli EXCEPT !.pc = "webview", !.checkin = reply]
                        ELSE Exit([cli EXCEPT !.checkin = reply], 1)
    /\ UNCHANGED <<cmd, proxyVars, handlerVars, ex, tokenVars, static, libVars>>

\* cmdLogin step 2
LoginWebView ==
    /\ cmd = "login"
    /\ cli.pc = "webview"
    /\ \E res \in WebViewResults :
         cli' = IF res.err # "" THEN Exit(cli, 1)
                ELSE [cli EXCEPT !.pc = "exchange", !.oauth = res.OAuthToken]
    /\ UNCHANGED <<cmd, cfg, disk, proxyVars, handlerVars, ex, tokenVars, static, libVars>>

\* cmdLogin step 3; printing masterToken[:10] panics (exit code 2) on a shorter one
LoginExchange ==
    /\ cmd = "login"
    /\ cli.pc = "exchange"
    /\ \E reply \in AuthReplies :
         LET out == AuthOutcome[reply]
             d   == LoginDecision(out)
             c2  == [cfg EXCEPT !.MasterToken = d.masterToken, !.Email = out.resp.Email]
         IN  IF d.err # ""
             THEN /\ cli' = Exit([cli EXCEPT !.resp = out.resp], 1)
                  /\ UNCHANGED <<cfg, disk>>
             ELSE \E s \in SaveOutcomes(c2, disk) :
                    /\ cfg' = c2
                    /\ disk' = s.disk
                    /\ cli' = Exit([cli EXCEPT !.resp = out.resp],
                                   IF s.err # "" THEN 1
                                   ELSE IF Len(d.masterToken) < 10 THEN 2 ELSE 0)
    /\ UNCHANGED <<cmd, proxyVars, handlerVars, ex, tokenVars, static, libVars>>

\* cmdFetch after auth.FetchServiceToken has returned: exit code and token printed
FetchResult(out) ==
    IF out.err # "" \/ out.resp.Auth = "" THEN [code |-> 1, token |-> "", tokenType |-> ""]
    ELSE [code |-> 0, token |-> out.resp.Auth,
          tokenType |-> TokenType(out.resp.Auth, "AES (1P)", "OAuth2", "Unknown")]

CmdFetch ==
    /\ cmd = "fetch"
    /\ cli.pc = "start"
    /\ \E scope \in FetchScopes :
         LET known == scope \in DOMAIN KnownApps
             f == FetchServiceToken(cfg,
                     IF known THEN KnownApps[scope].Scope ELSE scope,
                     IF known THEN KnownApps[scope].Package ELSE "com.google.android.gms",
                     GoogleSig)
         IN  IF ~HasMasterToken(cfg) \/ f.err # ""
             THEN cli' = Exit(cli, 1)
             ELSE \E reply \in AuthReplies :
                    LET res == FetchResult(AuthOutcome[reply])
                    IN  cli' = Exit([cli EXCEPT !.form = f.form, !.resp = AuthOutcome[reply].resp,
                                                !.token = res.token, !.tokenType = res.tokenType],
                                    res.code)
    /\ UNCHANGED <<cmd, cfg, disk, proxyVars, handlerVars, ex, tokenVars, static, libVars>>

(* ----------------------- static-resource proxy ------------------------ *)

\* strings.LastIndex
LastIndex(s, sub) ==
    LET hits == {i \in 0..(Len(s) - Len(sub)) : SubSeq(s, i + 1, i + Len(sub)) = sub}
    IN  IF hits = {} THEN -1 ELSE CHOOSE i \in hits : \A j \in hits : i >= j

\* the bytes net/url accepts unescaped in a host name
HostBytes == "abcdefghijklmnopqrstuvwxyzABCDEFGHIJKLMNOPQRSTUVWXYZ0123456789-_.~!$&'()*+,;=:[]<>\""

ValidHost(h) == \A i \in 1..Len(h) : Contains(HostBytes, SubSeq(h, i, i))

\* the port part (":" and digits, or nothing) of host[:port]
ValidOptionalPort(port) ==
    \/ port = ""
    \/ /\ SubSeq(port, 1, 1) = ":"
       /\ \A i \in 2..Len(port) : Contains("0123456789", SubSeq(port, i, i))

\* strings.Cut: the part before the first sep (all of s if there is none)
Before(s, sep) ==
    LET i == Index(s, sep) IN IF i < 0 THEN s ELSE SubSeq(s, 1, i)

\* the part after the last sep (all of s if there is none)
AfterLast(s, sep) ==
    LET i == LastIndex(s, sep) IN IF i < 0 THEN s ELSE SubSeq(s, i + Len(sep) + 1, Len(s))

\* url.parseHost, and URL.Hostname of the result
ParseHost(host) ==
    LET colon == LastIndex(host, ":")
    IN  IF ~ValidHost(host)
           \/ (colon >= 0 /\ ~ValidOptionalPort(SubSeq(host, colon + 1, Len(host))))
        THEN [ok |-> FALSE, hostname |-> ""]
        ELSE [ok |-> TRUE, hostname |-> IF colon < 0 THEN host ELSE SubSeq(host, 1, colon)]

\* url.parseAuthority: user information ends at the last "@"
ParseAuthority(authority) == ParseHost(AfterLast(authority, "@"))

\* what follows the scheme: "//", then the authority up to the first "/"
ParseRest(rest) ==
    IF ~HasPrefix(rest, "//") THEN [ok |-> FALSE, hostname |-> ""]
    ELSE ParseAuthority(Before(TrimPrefix(rest, "//"), "/"))

\* url.Parse of an absolute https URL, as far as the host goes: the fragment is
\* cut at the first "#", then the query at the first "?"
ParseURL(rawURL) ==
    ParseRest(Before(TrimPrefix(Before(rawURL, "#"), "https:"), "?"))

\* the exact allow-list
allowed ==
    { "ssl.gstatic.com", "www.gstatic.com", "fonts.gstatic.com", "fonts.googleapis.com",
      "apis.google.com", "www.google.com", "play.google.com", "lh3.googleusercontent.com",
      "accounts.youtube.com", "myaccount.google.com", "ogs.google.com", "clients1.google.com",
      "signaler-pa.clients6.google.com", "content-autofill.googleapis.com" }

\* the domain check of staticProxyHandler
DomainAllowed(domain) ==
    \/ domain \in allowed
    \/ HasSuffix(domain, ".google.com")
    \/ HasSuffix(domain, ".gstatic.com")
    \/ HasSuffix(domain, ".googleapis.com")
    \/ HasSuffix(domain, ".googleusercontent.com")

\* the decoded request paths (r.URL.Path) and raw queries a client can send
StaticPaths ==
    { "/gproxy/ssl.gstatic.com/a.css",
      "/gproxy/x.google.com/a",
      "/gproxy/evil.com/a",
      "/gproxy/notgoogle.com/a",
      "/gproxy/nodomain",
      "/gproxy/a b.google.com/a",
      "/gproxy/u@x.google.com/a",
      "/gproxy/evil.com#.google.com/a",
      "/gproxy/evil.com?.gstatic.com/a" }

StaticQueries == {"", "v=1"}

\* what the upstream host answers ("" and 0: the request failed)
StaticUpstream == {0, 200, 404}

\* staticProxyHandler up to client.Do: the status it answers by itself (0: it
\* goes on to the upstream), the checked domain and the host the request is
\* addressed to
StaticRoute(urlPath, rawQuery) ==
    LET path     == TrimPrefix(urlPath, "/gproxy/")
        slashIdx == Index(path, "/")
        domain   == SubSeq(path, 1, slashIdx)
        rest     == SubSeq(path, slashIdx + 1, Len(path))
        upstr    == "https://" \o domain \o rest
                       \o (IF rawQuery # "" THEN "?" \o rawQuery ELSE "")
        u        == ParseURL(upstr)
    IN  IF slashIdx < 0 THEN [status |-> 400, domain |-> "", host |-> ""]
        ELSE IF ~DomainAllowed(domain) THEN [status |-> 403, domain |-> domain, host |-> ""]
        ELSE IF ~u.ok THEN [status |-> 500, domain |-> domain, host |-> ""]
        ELSE IF u.hostname = "" THEN [status |-> 502, domain |-> domain, host |-> ""]
        ELSE [status |-> 0, domain |-> domain, host |-> u.hostname]

StaticPlan ==
    [p \in StaticPaths |-> [q \in StaticQueries |-> StaticRoute(p, q)]]

\* one request through staticProxyHandler; static keeps, per request served,
\* the checked domain, the status answered and the host contacted ("" if none)
StaticRequest ==
    /\ cmd = "serve"
    /\ Len(static) < MaxStatic
    /\ \E p \in StaticPaths, q \in StaticQueries, up \in StaticUpstream :
         LET route == StaticPlan[p][q]
         IN  static' = Append(static,
                 IF route.status # 0 THEN route
                 ELSE [route EXCEPT !.status = IF up = 0 THEN 502 ELSE up])
    /\ UNCHANGED <<cmd, cfg, disk, proxyVars, handlerVars, ex, tokenVars, cli, libVars>>

(* ------------------------------ protobuf ------------------------------ *)

\* a byte string is a sequence of 0..255; a Go value carries its dynamic type
WireVarint == 0
WireFixed64 == 1
WireBytes == 2
WireFixed32 == 5

TypeInt == "int"
TypeString == "string"
TypeBytes == "bytes"
TypeMessage == "message"
TypeBool == "bool"

\* FieldDef{Type, Repeated, MessageDef}; a nil MessageDef is the empty schema
FieldDef(type, repeated, messageDef) ==
    [Type |-> type, Repeated |-> repeated, MessageDef |-> messageDef]

\* Go values: int, int32, int64, uint64 (n), float64 (in halves), bool,
\* string and []byte (their bytes), map[string]interface{}, []interface{}
GoInt(n) == [t |-> "int", n |-> n]
GoInt32(n) == [t |-> "int32", n |-> n]
GoInt64(n) == [t |-> "int64", n |-> n]
GoUint64(n) == [t |-> "uint64", n |-> n]
GoFloat64(halves) == [t |-> "float64", halves |-> halves]
GoBool(b) == [t |-> "bool", b |-> b]
GoString(bs) == [t |-> "string", bs |-> bs]
GoBytes(bs) == [t |-> "[]byte", bs |-> bs]
GoMap(m) == [t |-> "map[string]interface{}", m |-> m]
GoSlice(items) == [t |-> "[]interface{}", items |-> items]
\* binary.LittleEndian.Uint64 and math.Float32frombits, kept as their bytes
GoFixed64(le) == [t |-> "uint64", le |-> le]
GoFloat32(le) == [t |-> "float32", le |-> le]

\* the conversions uint64(x) and int64(x) / int(x) at the word width
Uint64(x) == x % (2^WordBits)
Int64(x) == IF Uint64(x) >= 2^(WordBits - 1) THEN Uint64(x) - 2^WordBits ELSE Uint64(x)

\* binary.MaxVarintLen64, and the largest last byte that does not overflow
MaxVarintLen64 == (WordBits + 6) \div 7
LastByteMax == 2^(WordBits - 7 * (MaxVarintLen64 - 1)) - 1

\* binary.PutUvarint
RECURSIVE PutUvarint(_)
PutUvarint(x) ==
    IF x >= 128 THEN <<128 + (x % 128)>> \o PutUvarint(x \div 128) ELSE <<x>>

\* binary.Uvarint: the value and the number of bytes read; n = 0 when the
\* buffer ends inside the varint, n < 0 on overflow
RECURSIVE UvarintLoop(_, _, _, _)
UvarintLoop(buf, i, x, s) ==
    IF i >= Len(buf) THEN [val |-> 0, n |-> 0]
    ELSE IF i = MaxVarintLen64 THEN [val |-> 0, n |-> -(i + 1)]
    ELSE IF buf[i + 1] < 128
         THEN IF i = MaxVarintLen64 - 1 /\ buf[i + 1] > LastByteMax
              THEN [val |-> 0, n |-> -(i + 1)]
              ELSE [val |-> x + buf[i + 1] * 2^s, n |-> i + 1]
         ELSE UvarintLoop(buf, i + 1, x + (buf[i + 1] % 128) * 2^s, s + 7)

Uvarint(buf) == UvarintLoop(buf, 0, 0, 0)

writeVarint(value) == PutUvarint(value)

\* uint64(fieldNum<<3) | uint64(wireType)
writeTag(fieldNum, wireType) == writeVarint(Uint64(fieldNum * 8) + wireType)

\* strconv.Itoa
FormatInt(n) == IF n < 0 THEN "-" \o FormatDec(-n) ELSE FormatDec(n)

\* strconv.Atoi on short inputs: optional sign, then decimal digits
RECURSIVE ParseDigits(_, _)
ParseDigits(s, acc) ==
    IF s = "" THEN acc
    ELSE IF Index("0123456789", SubSeq(s, 1, 1)) < 0 THEN -1
    ELSE ParseDigits(SubSeq(s, 2, Len(s)), acc * 10 + Index("0123456789", SubSeq(s, 1, 1)))

Unsigned(s) == IF s # "" /\ SubSeq(s, 1, 1) \in {"+", "-"} THEN SubSeq(s, 2, Len(s)) ELSE s

Atoi(s) ==
    IF Unsigned(s) = "" \/ ParseDigits(Unsigned(s), 0) < 0 THEN [err |-> TRUE, n |-> 0]
    ELSE IF SubSeq(s, 1, 1) = "-" THEN [err |-> FALSE, n |-> -ParseDigits(Unsigned(s), 0)]
    ELSE [err |-> FALSE, n |-> ParseDigits(Unsigned(s), 0)]

\* toInt64
toInt64(v) ==
    CASE v.t \in {"int", "int32", "int64"} -> [err |-> "", n |-> v.n]
      [] v.t = "uint64"  -> [err |-> "", n |-> Int64(v.n)]
      [] v.t = "float64" -> [err |-> "", n |-> IF v.halves >= 0 THEN v.halves \div 2
                                                ELSE -((-v.halves) \div 2)]
      [] v.t = "bool"    -> [err |-> "", n |-> IF v.b THEN 1 ELSE 0]
      [] OTHER           -> [err |-> "cannot convert " \o v.t \o " to int64", n |-> 0]

\* what an encoder leaves behind: an error, or the bytes written to buf
Written(bs) == [err |-> "", out |-> bs]
Failed(msg) == [err |-> msg, out |-> <<>>]

\* tag, length and payload of a length-delimited field
Delimited(fieldNum, payload) ==
    writeTag(fieldNum, WireBytes) \o writeVarint(Len(payload)) \o payload

\* two writes in a row: the first error ends the encoding
Then(first, rest) ==
    { IF a.err # "" THEN a ELSE IF b.err # "" THEN b ELSE Written(a.out \o b.out) :
          a \in first, b \in rest }

\* a nested message written as a field; an error is wrapped with the field number
Nested(fieldNum, encodings, wrap) ==
    { IF e.err # ""
      THEN Failed(IF wrap THEN "field " \o FormatInt(fieldNum) \o ": " \o e.err ELSE e.err)
      ELSE Written(Delimited(fieldNum, e.out)) : e \in encodings }

\* the orders in which sort.Slice can leave the keys: ascending by Atoi, where
\* keys with the same number (or that are no number: 0) stay in the order the
\* map iteration produced them, which Go leaves unspecified
KeyOrders(keys) ==
    { order \in [1..Cardinality(keys) -> keys] :
          /\ \A i, j \in DOMAIN order : i # j => order[i] # order[j]
          /\ \A i, j \in DOMAIN order : i < j => ~(Atoi(order[j]).n < Atoi(order[i]).n) }

RECURSIVE encodeMessage(_, _)
RECURSIVE encodeKeys(_, _, _)
RECURSIVE encodeKey(_, _, _)
RECURSIVE encodeItems(_, _, _)
RECURSIVE encodeTypedField(_, _, _)
RECURSIVE encodeAutoField(_, _)

\* encodeTypedField: the set of things it can write (one, unless a nested
\* message has several key orders)
encodeTypedField(fieldNum, value, def) ==
    CASE def.Type = TypeInt ->
           IF toInt64(value).err # ""
           THEN {Failed("field " \o FormatInt(fieldNum) \o ": " \o toInt64(value).err)}
           ELSE {Written(writeTag(fieldNum, WireVarint)
                             \o writeVarint(Uint64(toInt64(value).n)))}
      [] def.Type = TypeBool ->
           IF value.t # "bool"
           THEN {Failed("field " \o FormatInt(fieldNum) \o ": expected bool")}
           ELSE {Written(writeTag(fieldNum, WireVarint)
                             \o writeVarint(IF value.b THEN 1 ELSE 0))}
      [] def.Type = TypeString ->
           IF value.t # "string"
           THEN {Failed("field " \o FormatInt(fieldNum) \o ": expected string, got " \o value.t)}
           ELSE {Written(Delimited(fieldNum, value.bs))}
      [] def.Type = TypeBytes ->
           IF value.t \notin {"[]byte", "string"}
           THEN {Failed("field " \o FormatInt(fieldNum) \o ": expected bytes")}
           ELSE {Written(Delimited(fieldNum, value.bs))}
      [] def.Type = TypeMessage ->
           IF value.t # "map[string]interface{}"
           THEN {Failed("field " \o FormatInt(fieldNum)
                            \o ": expected map[string]interface{} for message, got " \o value.t)}
           ELSE Nested(fieldNum, encodeMessage(value.m, def.MessageDef), TRUE)
      [] OTHER -> {Failed("field " \o FormatInt(fieldNum) \o ": unknown type " \o def.Type)}

\* encodeAutoField
encodeAutoField(fieldNum, value) ==
    CASE value.t \in {"int", "int32", "int64", "uint64"} ->
           {Written(writeTag(fieldNum, WireVarint) \o writeVarint(Uint64(value.n)))}
      [] value.t = "bool" ->
           {Written(writeTag(fieldNum, WireVarint) \o writeVarint(IF value.b THEN 1 ELSE 0))}
      [] value.t \in {"string", "[]byte"} ->
           {Written(Delimited(fieldNum, value.bs))}
      [] value.t = "map[string]interface{}" ->
           Nested(fieldNum, encodeMessage(value.m, <<>>), FALSE)
      [] OTHER ->
           {Failed("field " \o FormatInt(fieldNum) \o ": unsupported auto type " \o value.t)}

\* the loop over the items of a repeated field
encodeItems(fieldNum, items, def) ==
    IF items = <<>> THEN {Written(<<>>)}
    ELSE Then(encodeTypedField(fieldNum, Head(items), def),
              encodeItems(fieldNum, Tail(items), def))

\* the loop body without the strconv.Atoi error test: the key counts as field 0
encodeKeyUnchecked(msg, schema, key) ==
    IF key \notin DOMAIN schema THEN encodeAutoField(Atoi(key).n, msg[key])
    ELSE IF schema[key].Repeated
         THEN encodeItems(Atoi(key).n,
                          IF msg[key].t = "[]interface{}" THEN msg[key].items ELSE <<msg[key]>>,
                          schema[key])
    ELSE encodeTypedField(Atoi(key).n, msg[key], schema[key])

\* one iteration of the loop over the sorted keys
encodeKey(msg, schema, key) ==
    IF Atoi(key).err THEN {Failed("invalid field number: " \o key)}
    ELSE IF key \notin DOMAIN schema THEN encodeAutoField(Atoi(key).n, msg[key])
    ELSE IF schema[key].Repeated
         THEN encodeItems(Atoi(key).n,
                          IF msg[key].t = "[]interface{}" THEN msg[key].items ELSE <<msg[key]>>,
                          schema[key])
    ELSE encodeTypedField(Atoi(key).n, msg[key], schema[key])

encodeKeys(msg, schema, keys) ==
    IF keys = <<>> THEN {Written(<<>>)}
    ELSE Then(encodeKey(msg, schema, Head(keys)), encodeKeys(msg, schema, Tail(keys)))

\* encodeMessage: every output the unspecified map iteration order allows
encodeMessage(msg, schema) ==
    UNION { encodeKeys(msg, schema, order) : order \in KeyOrders(DOMAIN msg) }

\* Encode: (nil, err) or (buf.Bytes(), nil)
Encode(message, schema) == encodeMessage(message, schema)

\* isLikelyString
isLikelyString(data) ==
    \A i \in DOMAIN data : ~(data[i] < 32 /\ data[i] \notin {10, 13, 9})

\* result[key] = value on a map
MapPut(m, key, value) ==
    [k \in DOMAIN m \cup {key} |-> IF k = key THEN value ELSE m[k]]

\* an addToResult that keeps only the value met last
addToResultLast(result, key, value) == MapPut(result, key, value)

\* addToResult
addToResult(result, key, value) ==
    IF key \in DOMAIN result
    THEN IF result[key].t = "[]interface{}"
         THEN MapPut(result, key, GoSlice(Append(result[key].items, value)))
         ELSE MapPut(result, key, GoSlice(<<result[key], value>>))
    ELSE MapPut(result, key, value)

\* how DecodeMessage ends: (result, nil), (nil, err), or a runtime panic
Decoded(result) == [status |-> "ok", err |-> "", fields |-> result]
DecodeError(msg) == [status |-> "error", err |-> msg, fields |-> <<>>]
Panic(msg) == [status |-> "panic", err |-> msg, fields |-> <<>>]

\* data[pos:]
From(data, pos) == SubSeq(data, pos + 1, Len(data))

RECURSIVE DecodeLoop(_, _, _)
RECURSIVE DecodeField(_, _, _, _, _)
RECURSIVE DecodeVarint(_, _, _, _)
RECURSIVE DecodeBytes(_, _, _, _)
RECURSIVE DecodePayload(_, _, _, _, _)
RECURSIVE DecodeNested(_, _, _, _, _)

\* case WireVarint
DecodeVarint(data, pos, fieldNum, result) ==
    IF Uvarint(From(data, pos)).n <= 0
    THEN DecodeError("failed to read varint for field " \o FormatDec(fieldNum))
    ELSE DecodeLoop(data, pos + Uvarint(From(data, pos)).n,
                    addToResult(result, FormatDec(fieldNum),
                                GoInt64(Int64(Uvarint(From(data, pos)).val))))

\* the payload was cut out: nested message, text, or bytes
DecodeNested(data, pos, fieldNum, result, payload) ==
    LET nested == DecodeLoop(payload, 0, <<>>)
    IN  IF nested.status = "panic" THEN nested
        ELSE DecodeLoop(data, pos,
                 addToResult(result, FormatDec(fieldNum),
                     IF nested.status = "ok" /\ DOMAIN nested.fields # {}
                     THEN GoMap(nested.fields)
                     ELSE IF isLikelyString(payload) THEN GoString(payload)
                     ELSE GoBytes(payload)))

\* the bounds check with length already converted by int(length), and the
\* slice expression data[pos : pos+int(length)], which panics when its high
\* index is below its low index
DecodePayload(data, pos, length, fieldNum, result) ==
    IF Int64(pos + length) > Len(data)
    THEN DecodeError("not enough data for bytes field " \o FormatDec(fieldNum))
    ELSE IF Int64(pos + length) < pos
    THEN Panic("slice bounds out of range")
    ELSE DecodeNested(data, Int64(pos + length), fieldNum, result,
                      SubSeq(data, pos + 1, Int64(pos + length)))

\* case WireBytes
DecodeBytes(data, pos, fieldNum, result) ==
    IF Uvarint(From(data, pos)).n <= 0
    THEN DecodeError("failed to read length for field " \o FormatDec(fieldNum))
    ELSE DecodePayload(data, pos + Uvarint(From(data, pos)).n,
                       Int64(Uvarint(From(data, pos)).val), fieldNum, result)

\* the switch on the wire type
DecodeField(data, pos, fieldNum, wireType, result) ==
    CASE wireType = WireVarint -> DecodeVarint(data, pos, fieldNum, result)
      [] wireType = WireFixed64 ->
           IF pos + 8 > Len(data)
           THEN DecodeError("not enough data for fixed64 field " \o FormatDec(fieldNum))
           ELSE DecodeLoop(data, pos + 8,
                    addToResult(result, FormatDec(fieldNum),
                                GoFixed64(SubSeq(data, pos + 1, pos + 8))))
      [] wireType = WireBytes -> DecodeBytes(data, pos, fieldNum, result)
      [] wireType = WireFixed32 ->
           IF pos + 4 > Len(data)
           THEN DecodeError("not enough data for fixed32 field " \o FormatDec(fieldNum))
           ELSE DecodeLoop(data, pos + 4,
                    addToResult(result, FormatDec(fieldNum),
                                GoFloat32(SubSeq(data, pos + 1, pos + 4))))
      [] OTHER -> DecodeError("unknown wire type " \o FormatDec(wireType)
                                  \o " for field " \o FormatDec(fieldNum))

\* for pos < len(data): read the tag, then the field
DecodeLoop(data, pos, result) ==
    IF ~(pos < Len(data)) THEN Decoded(result)
    ELSE IF Uvarint(From(data, pos)).n <= 0
    THEN DecodeError("failed to read tag at pos " \o FormatDec(pos))
    ELSE DecodeField(data, pos + Uvarint(From(data, pos)).n,
                     Uvarint(From(data, pos)).val \div 8,
                     Uvarint(From(data, pos)).val % 8, result)

\* DecodeMessage
DecodeMessage(data) == DecodeLoop(data, 0, <<>>)

\* -- the codec at work: check-in builds a request with Encode and reads the
\* -- response with DecodeMessage

NoCall == [pc |-> "none"]

\* the bytes of short ASCII texts
Bytes_abc == <<97, 98, 99>>
Bytes_a == <<97>>
Bytes_b == <<98>>

\* integers handed to an int field: int64, uint64, int and int32 values at
\* the edges of the varint groups and of the word
IntegerValues ==
    {GoInt64(v) : v \in {0, 1, 127, 128, 300, 2^(WordBits - 1) - 1, -1, -128, -(2^(WordBits - 1))}}
        \cup {GoUint64(v) : v \in {0, 127, 128, 2^(WordBits - 1), 2^WordBits - 1}}
        \cup {GoInt(5), GoInt(-1), GoInt32(7)}

\* payloads of string and bytes fields: empty, plain text, a control byte,
\* text with a line break, bytes that read as a message (field 1 = 1), and
\* bytes that read as a field announcing the largest length
Payloads ==
    { <<>>, Bytes_abc, <<1>>, <<97, 10, 98>>, <<8, 1>>,
      <<10>> \o PutUvarint(2^WordBits - 1) }

IntSchema == "1" :> FieldDef(TypeInt, FALSE, <<>>)
BoolSchema == "1" :> FieldDef(TypeBool, FALSE, <<>>)
StringSchema == "1" :> FieldDef(TypeString, FALSE, <<>>)
BytesSchema == "1" :> FieldDef(TypeBytes, FALSE, <<>>)
RepeatedIntSchema == "3" :> FieldDef(TypeInt, TRUE, <<>>)
RepeatedStringSchema == "3" :> FieldDef(TypeString, TRUE, <<>>)
PairSchema == ("1" :> FieldDef(TypeInt, FALSE, <<>>)) @@ ("2" :> FieldDef(TypeString, FALSE, <<>>))
MessageSchema == "4" :> FieldDef(TypeMessage, FALSE, PairSchema)

\* the items of a repeated field: one to MaxItems of them
ItemLists(items) == UNION { [1..n -> items] : n \in 1..MaxItems }

Request(message, schema) == [message |-> message, schema |-> schema]

\* one field of each scalar type
ScalarRequests ==
    {Request("1" :> v, IntSchema) : v \in IntegerValues \cup {GoBool(TRUE), GoFloat64(5), GoString(Bytes_abc)}}
        \cup {Request("1" :> GoBool(b), BoolSchema) : b \in BOOLEAN}
        \cup {Request("1" :> GoString(p), StringSchema) : p \in Payloads}
        \cup {Request("1" :> GoBytes(p), BytesSchema) : p \in Payloads}
        \cup {Request("1" :> GoString(Bytes_abc), BytesSchema)}

\* a repeated field given a list, or a single value
RepeatedRequests ==
    {Request("3" :> GoSlice(l), RepeatedIntSchema) : l \in ItemLists({GoInt64(1), GoInt64(2)})}
        \cup {Request("3" :> GoSlice(l), RepeatedStringSchema) :
                  l \in ItemLists({GoString(Bytes_a), GoString(Bytes_b)})}
        \cup {Request("3" :> GoInt64(1), RepeatedIntSchema)}

\* several keys: in and out of the schema, one- and two-digit, written with
\* a leading zero or a sign, not a number, and a nested message
KeyedRequests ==
    { Request(("1" :> GoInt64(1)) @@ ("2" :> GoString(Bytes_a)), PairSchema),
      Request(("2" :> GoString(Bytes_a)) @@ ("10" :> GoInt64(2)), PairSchema),
      Request(("1" :> GoInt64(1)) @@ ("01" :> GoInt64(2)), PairSchema),
      Request(("1" :> GoInt64(1)) @@ ("+1" :> GoInt64(1)), PairSchema),
      Request(("2" :> GoString(Bytes_a)) @@ ("16" :> GoBool(TRUE)) @@ ("1" :> GoInt(5)), PairSchema),
      Request(("1" :> GoInt64(1)) @@ ("x" :> GoInt64(2)), PairSchema),
      Request("-1" :> GoInt64(1), <<>>),
      Request("16" :> GoUint64(300), <<>>),
      Request("1" :> GoSlice(<<GoInt64(1)>>), <<>>),
      Request("4" :> GoMap(("2" :> GoString(Bytes_b)) @@ ("1" :> GoInt64(7))), MessageSchema),
      Request("4" :> GoMap(("1" :> GoInt64(1)) @@ ("01" :> GoInt64(2))), <<>>),
      Request("4" :> GoInt64(1), MessageSchema),
      Request(("x" :> GoInt64(1)) @@ ("y" :> GoInt64(2)), <<>>),
      Request(("-1" :> GoSlice(<<GoInt64(1)>>)) @@ ("x" :> GoInt64(2)), <<>>),
      Request(("0" :> GoSlice(<<GoInt64(1)>>)) @@ ("x" :> GoInt64(2)), <<>>),
      Request(("1" :> GoString(Bytes_a)) @@ ("x" :> GoInt64(2)), PairSchema),
      Request("4" :> GoMap(("1" :> GoInt64(7)) @@ ("1x" :> GoInt64(1))), MessageSchema),
      Request("4" :> GoMap("" :> GoInt64(1)), <<>>),
      Request("1" :> GoMap("x" :> GoInt64(1)), IntSchema) }

EncodeRequests == ScalarRequests \cup RepeatedRequests \cup KeyedRequests

\* response bodies: well-formed messages, and messages that end early or
\* announce more than they carry
WireInputs ==
    { <<>>, <<8, 1>>, <<8, 1, 8, 2, 8, 3>>, <<8, 1, 10, 1, 97>>,
      <<9, 1, 2, 3, 4, 5, 6, 7, 8>>, <<13, 1, 2, 3, 4>>, <<10, 1, 97>>,
      <<10, 2, 8, 1>>, <<10, 0>>,
      <<128>>, <<8>>, <<8, 128>>, <<8, 255, 255, 255, 1>>,
      <<9, 1, 2, 3>>, <<13, 1>>, <<11>>, <<10>>, <<10, 5, 1>>,
      <<10>> \o PutUvarint(2^WordBits - 1),
      <<10>> \o PutUvarint(2^(WordBits - 1)),
      <<10>> \o PutUvarint(2^(WordBits - 1) - 1) \o <<1>>,
      <<8, 1, 10>> \o PutUvarint(2^WordBits - 2) \o <<1, 2>>,
      <<10, 3, 8, 1, 9>>, <<10, 2, 8, 128>>, <<18, 1, 0>>,
      <<10>> \o PutUvarint(1 + Len(PutUvarint(2^WordBits - 1)))
            \o <<10>> \o PutUvarint(2^WordBits - 1) }

NoEncoding == [err |-> "", out |-> <<>>]
NoDecoding == [status |-> "none", err |-> "", fields |-> <<>>]

\* the states in which the codec is entered
CodecCalls ==
    {[pc |-> "Encode", message |-> r.message, schema |-> r.schema,
      enc |-> NoEncoding, data |-> <<>>, dec |-> NoDecoding] : r \in EncodeRequests}
        \cup {[pc |-> "DecodeMessage", message |-> <<>>, schema |-> <<>>,
               enc |-> NoEncoding, data |-> d, dec |-> NoDecoding] : d \in WireInputs}

\* Encode(message, schema) returns; what was encoded is then read back
EncodeCall ==
    /\ call.pc = "Encode"
    /\ \E e \in Encode(call.message, call.schema) :
           call' = [call EXCEPT !.enc = e, !.data = e.out,
                                !.pc = IF e.err = "" THEN "DecodeMessage" ELSE "failed"]
    /\ UNCHANGED <<cmd, cfg, disk, proxyVars, handlerVars, ex, tokenVars, cli, static,
                   prefs, bundle>>

\* DecodeMessage(data) returns or panics
DecodeCall ==
    /\ call.pc = "DecodeMessage"
    /\ call' = [call EXCEPT !.dec = DecodeMessage(call.data), !.pc = "decoded"]
    /\ UNCHANGED <<cmd, cfg, disk, proxyVars, handlerVars, ex, tokenVars, cli, static,
                   prefs, bundle>>

(* ----------------------- text functions at work ----------------------- *)

\* the port given on the command line, or the default
Ports == {8080}

staticDomains ==
    << "ssl.gstatic.com", "www.gstatic.com", "fonts.gstatic.com", "fonts.googleapis.com",
       "apis.google.com", "ogs.google.com", "play.google.com", "myaccount.google.com",
       "lh3.googleusercontent.com" >>

\* the body of the loop over staticDomains
RewriteDomain(content, base, d) ==
    ReplaceAll(ReplaceAll(ReplaceAll(content,
        "https://" \o d, base \o "/gproxy/" \o d),
        "https:\\/\\/" \o d, base \o "\\/gproxy\\/" \o d),
        "//" \o d, base \o "/gproxy/" \o d)

\* for _, d := range staticDomains: content is a new value after every round
RECURSIVE RewriteDomains(_, _, _)
RewriteDomains(content, base, domains) ==
    IF domains = <<>> THEN content
    ELSE CHOOSE out \in { RewriteDomains(c, base, Tail(domains)) :
                              c \in {RewriteDomain(content, base, Head(domains))} } : TRUE

\* accounts.google.com -> /glogin
RewriteAccounts(content, base) ==
    ReplaceAll(ReplaceAll(ReplaceAll(content,
        "https://accounts.google.com", base \o "/glogin"),
        "https:\\/\\/accounts.google.com", base \o "\\/glogin"),
        "//accounts.google.com", base \o "/glogin")

\* a rewriteBodyURLs that leaves the JSON-escaped spelling alone
rewriteBodyURLsPlain(content, port) ==
    ReplaceAll(ReplaceAll(content,
        "https://accounts.google.com", "http://localhost:" \o FormatDec(port) \o "/glogin"),
        "//accounts.google.com", "http://localhost:" \o FormatDec(port) \o "/glogin")

\* rewriteBodyURLs
rewriteBodyURLs(content, port) ==
    RewriteDomains(RewriteAccounts(content, "http://localhost:" \o FormatDec(port)),
                   "http://localhost:" \o FormatDec(port), staticDomains)

\* response bodies of the /auth endpoint: up to MaxLines lines ended by LF or CRLF;
\* lines with and without a key, with spaces around them, and with a key twice
AuthLines ==
    { "Auth=ya29.a1", "Auth=b", "Token=aas_et/t ", " Email=e@x", "Error=", "k=1=2",
      "=v", "novalue", "x= v", "" }

RECURSIVE Bodies(_)
Bodies(n) ==
    IF n = 0 THEN { "" }
    ELSE Bodies(n - 1)
             \cup { b \o l \o e : b \in Bodies(n - 1), l \in AuthLines, e \in {"\n", "\r\n"} }

\* the last line may come without its line ending
AuthBodies ==
    Bodies(MaxLines) \cup { b \o l : b \in Bodies(MaxLines - 1), l \in AuthLines }

\* the Auth value of a service-token response
ServiceTokens ==
    { "a", "aas_et/", "aas_et/x", "aas_et", "ya29.", "ya29.x", "ya29", "xaas_et/y",
      "x ya29.z", "AAS_ET/x", "Ya29.x", "ya29/x", "aas_et.x", "aas_et/ya29.x", "ya29.aas_et/x" }

\* upstream HTML and JavaScript: up to MaxUrls URLs, each a spelling of a
\* scheme in front of a host, with text around them
Schemes == { "https://", "https:\\/\\/", "//", "http://", "https:/", "" }
Hosts ==
    { staticDomains[i] : i \in DOMAIN staticDomains }
        \cup { "accounts.google.com", "example.com", "xaccounts.google.com" }
Urls == { s \o h : s \in Schemes, h \in Hosts }

RECURSIVE Contents(_)
Contents(n) ==
    IF n = 0 THEN { "<p>" }
    ELSE Contents(n - 1)
             \cup { c \o u \o "/o</p>" : c \in Contents(n - 1), u \in Urls }

TextCalls ==
    {[pc |-> "parseAuthResponse", body |-> b] : b \in AuthBodies}
        \cup {[pc |-> "tokenType", auth |-> a] : a \in ServiceTokens}

RewriteCalls ==
    {[pc |-> "rewriteBodyURLs", content |-> c, port |-> p] :
         c \in Contents(MaxUrls), p \in Ports}

\* doAuthRequest parses the body it read
ParseCall ==
    /\ call.pc = "parseAuthResponse"
    /\ call' = [pc |-> "parsed", body |-> call.body, r |-> parseAuthResponse(call.body)]
    /\ UNCHANGED <<cmd, cfg, disk, proxyVars, handlerVars, ex, tokenVars, cli, static,
                   prefs, bundle>>

\* the /api/token handler and gauth fetch label the token they were given
ClassifyCall ==
    /\ call.pc = "tokenType"
    /\ call' = [pc |-> "classified", auth |-> call.auth,
                handler |-> TokenType(call.auth, "aes", "oauth2", "unknown"),
                fetch |-> TokenType(call.auth, "AES (1P)", "OAuth2", "Unknown")]
    /\ UNCHANGED <<cmd, cfg, disk, proxyVars, handlerVars, ex, tokenVars, cli, static,
                   prefs, bundle>>

\* googleProxyHandler rewrites a text body
RewriteCall ==
    /\ call.pc = "rewriteBodyURLs"
    /\ call' = [pc |-> "rewritten", content |-> call.content, port |-> call.port,
                out |-> rewriteBodyURLs(call.content, call.port)]
    /\ UNCHANGED <<cmd, cfg, disk, proxyVars, handlerVars, ex, tokenVars, cli, static,
                   prefs, bundle>>

(* ----------------------- TokenManagerProvider (Android) ---------------------- *)

\* Java null
Null == "<null>"

\* hashPassword: the SHA-256 digest in hex; a null password throws inside the
\* try block and the catch returns ""
Passwords == {"", "pw1", "pw2"}
SHA256 ==
    [p \in Passwords |->
        CASE p = ""    -> "e3b0c44298fc1c149afbf4c8996fb92427ae41e4649b934ca495991b7852b855"
          [] p = "pw1" -> "c592df4a86933b92addc9842402ddf198c638ea9be58916ee6e3734e1e3152f8"
          [] p = "pw2" -> "93915a0a4bf8f634cb1856494dd4304472ad46b9827f541f76b6761c49cc55b0"]

hashPassword(password) == IF password = Null THEN "" ELSE SHA256[password]

\* the installed packages and getSignatureHash of each of their signatures;
\* a caller whose uid has no package is "unknown", which is not installed
PackageSignatures ==
    ("com.trusted.app" :> {"38918a453d07199354f8b19af05ec6562ced5788"})
        @@ ("com.other.app" :> {"58e1c4133f7441ec3d2c270270a14802da47ba0e"})
        @@ ("com.unsigned.app" :> {})
Callers == DOMAIN PackageSignatures \cup {"unknown"}

\* what the settings screen can put on the allow list (any letter case)
SignatureInputs ==
    {"38918A453D07199354F8B19AF05EC6562CED5788", "58e1c4133f7441ec3d2c270270a14802da47ba0e"}

\* the preferences of a fresh install
NoPrefs == [auth_mode |-> Null, password_hash |-> Null, allowed_signatures |-> {}]

\* getAuthMode: SIGNATURE unless set
getAuthMode(p) == IF p.auth_mode = Null THEN "SIGNATURE" ELSE p.auth_mode

\* verifyPassword
verifyPassword(p, password) ==
    IF p.password_hash = Null THEN FALSE ELSE p.password_hash = hashPassword(password)

\* signatureHash.toLowerCase(), tabulated
LowerCase ==
    [h \in SignatureInputs \cup UNION {PackageSignatures[c] : c \in DOMAIN PackageSignatures}
        |-> ToLower(h)]

\* verifyCallerSignature
verifyCallerSignature(p, callingPackage) ==
    IF callingPackage \notin DOMAIN PackageSignatures THEN FALSE
    ELSE \E signatureHash \in PackageSignatures[callingPackage] :
             LowerCase[signatureHash] \in p.allowed_signatures

\* an isAuthorized that accepts either proof, whatever the mode
isAuthorizedEither(p, callingPackage, password) ==
    verifyCallerSignature(p, callingPackage) \/ verifyPassword(p, password)

\* isAuthorized
isAuthorized(p, callingPackage, password) ==
    IF getAuthMode(p) = "SIGNATURE" THEN verifyCallerSignature(p, callingPackage)
    ELSE verifyPassword(p, password)

\* the accounts on the device, and getAccountFromArg
Accounts == {"user@gmail.com"}
Args == {Null, "USER@gmail.com", "nobody@gmail.com"}
getAccountFromArg ==
    [arg \in Args |->
        IF arg = Null \/ arg = "" \/ ~(\E a \in Accounts : EqualFold(a, arg)) THEN Null
        ELSE CHOOSE a \in Accounts : EqualFold(a, arg)]

\* what the account manager and Google hold when a call is made: the stored
\* master token (or none) and the auth value of the response (or none)
Services ==
    { [master |-> m, auth |-> a] : m \in {Null, "aas_et/mt1"}, a \in {"", "ya29.photos1"} }

\* TokenManagerService.fetchToken
fetchToken(svc) ==
    IF svc.master = Null THEN "ERROR: No master token found. Please re-login."
    ELSE IF svc.auth # "" THEN svc.auth
    ELSE "ERROR: Google returned empty token"

\* the Bundle of a call, with what was asked and how often the token service
\* was used for it
Bundle(success, err, token, authString, fetched) ==
    [success |-> success, error |-> err, token |-> token, authString |-> authString,
     fetched |-> fetched]

NoBundle ==
    [calls |-> 0, caller |-> "", method |-> "", password |-> Null,
     out |-> Bundle(FALSE, Null, Null, Null, 0)]

Methods == {"getPhotosToken", "getPhotosAuthString", "getMasterToken", "getCustomToken", "query"}
\* extras: none, or a Bundle with or without a password
NoExtras == [null |-> TRUE, password |-> Null]
Extras == {NoExtras} \cup {[null |-> FALSE, password |-> pw] : pw \in {Null, "pw1", "pw2"}}

\* the switch on the method name, with the catch around it
Dispatch(method, extras, svc) ==
    CASE method = "getPhotosToken" ->
           Bundle(~HasPrefix(fetchToken(svc), "ERROR"), Null, fetchToken(svc), Null, 1)
      [] method = "getPhotosAuthString" ->
           IF svc.master = Null THEN Bundle(FALSE, "No master token found", Null, Null, 1)
           ELSE Bundle(TRUE, Null, Null, "Token=" \o svc.master \o "&service=photos", 1)
      [] method = "getMasterToken" ->
           Bundle(svc.master # Null, Null, svc.master, Null, 1)
      [] method = "getCustomToken" ->
           IF extras.null THEN Bundle(FALSE, Null, Null, Null, 0)
           ELSE Bundle(~HasPrefix(fetchToken(svc), "ERROR"), Null, fetchToken(svc), Null, 1)
      [] OTHER -> Bundle(FALSE, "Unknown method: " \o method, Null, Null, 0)

\* TokenManagerProvider.call
ProviderCall(p, callingPackage, method, arg, extras, svc) ==
    IF ~isAuthorized(p, callingPackage, IF extras.null THEN Null ELSE extras.password)
    THEN Bundle(FALSE, "Unauthorized. Check signature or password.", Null, Null, 0)
    ELSE IF getAccountFromArg[arg] = Null
    THEN Bundle(FALSE, "Account not found: " \o (IF arg = Null THEN "null" ELSE arg),
                Null, Null, 0)
    ELSE Dispatch(method, extras, svc)

\* an app calls the provider
Call ==
    /\ bundle.calls < MaxCalls
    /\ \E callingPackage \in Callers, method \in Methods, arg \in Args,
          extras \in Extras, svc \in Services :
           bundle' = [calls |-> bundle.calls + 1, caller |-> callingPackage,
                      method |-> method,
                      password |-> IF extras.null THEN Null ELSE extras.password,
                      out |-> ProviderCall(prefs, callingPackage, method, arg, extras, svc)]
    /\ UNCHANGED <<cmd, cfg, disk, proxyVars, handlerVars, ex, tokenVars, cli, static,
                   call, prefs>>

\* the settings screen: setAuthMode, setPassword, addAllowedSignature,
\* removeAllowedSignature
SetAuthMode ==
    /\ \E mode \in {"SIGNATURE", "PASSWORD"} : prefs' = [prefs EXCEPT !.auth_mode = mode]
    /\ UNCHANGED <<cmd, cfg, disk, proxyVars, handlerVars, ex, tokenVars, cli, static,
                   call, bundle>>

SetPassword ==
    /\ \E password \in Passwords \cup {Null} :
           prefs' = [prefs EXCEPT !.password_hash = hashPassword(password)]
    /\ UNCHANGED <<cmd, cfg, disk, proxyVars, handlerVars, ex, tokenVars, cli, static,
                   call, bundle>>

AddAllowedSignature ==
    /\ \E signatureHash \in SignatureInputs :
           prefs' = [prefs EXCEPT !.allowed_signatures = @ \cup {LowerCase[signatureHash]}]
    /\ UNCHANGED <<cmd, cfg, disk, proxyVars, handlerVars, ex, tokenVars, cli, static,
                   call, bundle>>

RemoveAllowedSignature ==
    /\ \E signatureHash \in SignatureInputs :
           prefs' = [prefs EXCEPT !.allowed_signatures = @ \ {LowerCase[signatureHash]}]
    /\ UNCHANGED <<cmd, cfg, disk, proxyVars, handlerVars, ex, tokenVars, cli, static,
                   call, bundle>>

(* ------------------------- ProxyState.mu at work ------------------------- *)

\* the goroutines of a login session, taken at the grain of s.mu.Lock() and
\* the deferred s.mu.Unlock(): the /glogin request handlers, the exchangeToken
\* goroutine each of them can start, and the callers of Subscribe
LockHandlers == 1..NumHandlers
LockExchanges == (NumHandlers + 1)..(2 * NumHandlers)
LockSubscribers == (2 * NumHandlers + 1)..(2 * NumHandlers + MaxSubs)
LockTasks == LockHandlers \cup LockExchanges \cup LockSubscribers

ExchangeOf(h) == NumHandlers + h

\* the methods of ProxyState, all of which begin with s.mu.Lock()
LockedMethods == {"IsCaptured", "SetToken", "SetResult", "Subscribe"}

\* where a goroutine waits for the network, the disk or a channel
BlockingPoints == {"client.Do", "ExchangeOAuthForMaster", "cfg.Save", "respond", "receive"}

\* a goroutine: its position, its hold on s.mu ("" none, "held" locked, "ran"
\* body done and the deferred Unlock still to run) and its locals
NoGoroutine ==
    [pc |-> "none", mu |-> "", token |-> "", seen |-> FALSE,
     res |-> [email |-> "", err |-> ""], ch |-> 0, got |-> 0]

LockStart ==
    [pc |-> "mu", holder |-> 0,
     task |-> [t \in LockTasks |->
                  IF t \in LockHandlers THEN [NoGoroutine EXCEPT !.pc = "client.Do"]
                  ELSE IF t \in LockSubscribers THEN [NoGoroutine EXCEPT !.pc = "Subscribe"]
                  ELSE NoGoroutine]]

\* the oauth_token found in the Set-Cookie headers of a response ("" for none)
CookieTokens == {"", "tA"}

\* s.mu.Lock(): the first statement of each method
MuLock(t) ==
    /\ call.pc = "mu"
    /\ call.task[t].pc \in LockedMethods
    /\ call.task[t].mu = ""
    /\ call.holder = 0
    /\ call' = [call EXCEPT !.holder = t, !.task[t].mu = "held"]
    /\ UNCHANGED <<cmd, cfg, disk, proxyVars, handlerVars, ex, tokenVars, cli, static,
                   prefs, bundle>>

\* the body of the method, run with s.mu held
Critical(t) ==
    /\ call.pc = "mu"
    /\ call.holder = t
    /\ call.task[t].mu = "held"
    /\ CASE call.task[t].pc = "IsCaptured" ->
              /\ call' = [call EXCEPT !.task[t].mu = "ran", !.task[t].seen = IsCaptured]
              /\ UNCHANGED proxyVars
         [] call.task[t].pc = "SetToken" ->
              /\ SetToken(call.task[t].token)
              /\ call' = [call EXCEPT !.task[t].mu = "ran"]
              /\ UNCHANGED <<email, error>>
         [] call.task[t].pc = "SetResult" ->
              /\ SetResult(call.task[t].res.email, call.task[t].res.err)
              /\ call' = [call EXCEPT !.task[t].mu = "ran"]
              /\ UNCHANGED <<captured, oauthToken, listeners, setTokenCalls>>
         [] call.task[t].pc = "Subscribe" ->
              /\ Subscribe
              /\ call' = [call EXCEPT !.task[t].mu = "ran", !.task[t].ch = Len(listeners) + 1]
    /\ UNCHANGED <<cmd, cfg, disk, handlerVars, ex, tokenVars, cli, static, prefs, bundle>>

\* where the caller goes on after the method has returned
AfterMethod(g) ==
    CASE g.pc = "IsCaptured" -> IF g.seen THEN "respond" ELSE "SetToken"
      [] g.pc = "SetToken"   -> "go"
      [] g.pc = "SetResult"  -> "done"
      [] g.pc = "Subscribe"  -> "receive"

\* the deferred s.mu.Unlock(), and the return to the caller
MuUnlock(t) ==
    /\ call.pc = "mu"
    /\ call.holder = t
    /\ call.task[t].mu = "ran"
    /\ call' = [call EXCEPT !.holder = 0, !.task[t].mu = "",
                            !.task[t].pc = AfterMethod(call.task[t])]
    /\ UNCHANGED <<cmd, cfg, disk, proxyVars, handlerVars, ex, tokenVars, cli, static,
                   prefs, bundle>>

\* client.Do(proxyReq) returns: a 502 on error, else the cookies are scanned
UpstreamReply(h) ==
    /\ call.pc = "mu"
    /\ h \in LockHandlers
    /\ call.task[h].pc = "client.Do"
    /\ \/ call' = [call EXCEPT !.task[h].pc = "done"]
       \/ \E token \in CookieTokens :
            call' = [call EXCEPT !.task[h].token = token,
                                 !.task[h].pc = IF token # "" THEN "IsCaptured" ELSE "respond"]
    /\ UNCHANGED <<cmd, cfg, disk, proxyVars, handlerVars, ex, tokenVars, cli, static,
                   prefs, bundle>>

\* go func() { exchangeToken(cfg, state, token) }()
GoExchange(h) ==
    /\ call.pc = "mu"
    /\ h \in LockHandlers
    /\ call.task[h].pc = "go"
    /\ call' = [call EXCEPT !.task[h].pc = "respond",
                            !.task[ExchangeOf(h)].pc = "ExchangeOAuthForMaster",
                            !.task[ExchangeOf(h)].token = call.task[h].token]
    /\ UNCHANGED <<cmd, cfg, disk, proxyVars, handlerVars, ex, tokenVars, cli, static,
                   prefs, bundle>>

\* the response is written to the browser
Respond(h) ==
    /\ call.pc = "mu"
    /\ h \in LockHandlers
    /\ call.task[h].pc = "respond"
    /\ call' = [call EXCEPT !.task[h].pc = "done"]
    /\ UNCHANGED <<cmd, cfg, disk, proxyVars, handlerVars, ex, tokenVars, cli, static,
                   prefs, bundle>>

\* auth.ExchangeOAuthForMaster returns; cfg is written when a token came back
ExchangeReply(e) ==
    /\ call.pc = "mu"
    /\ e \in LockExchanges
    /\ call.task[e].pc = "ExchangeOAuthForMaster"
    /\ \E reply \in AuthReplies :
         LET out == AuthOutcome[reply]
             d   == ExchangeDecision(out)
         IN  IF d.err # ""
             THEN /\ call' = [call EXCEPT !.task[e].pc = "SetResult",
                                          !.task[e].res = [email |-> "", err |-> d.err]]
                  /\ UNCHANGED cfg
             ELSE /\ cfg' = [cfg EXCEPT !.MasterToken = d.masterToken, !.Email = out.resp.Email]
                  /\ call' = [call EXCEPT !.task[e].pc = "cfg.Save",
                                          !.task[e].res = [email |-> out.resp.Email, err |-> ""]]
    /\ UNCHANGED <<cmd, disk, proxyVars, handlerVars, ex, tokenVars, cli, static, prefs, bundle>>

\* cfg.Save() returns
SaveReply(e) ==
    /\ call.pc = "mu"
    /\ e \in LockExchanges
    /\ call.task[e].pc = "cfg.Save"
    /\ \E o \in SaveOutcomes(cfg, disk) :
         /\ disk' = o.disk
         /\ call' = [call EXCEPT !.task[e].pc = "SetResult",
                                 !.task[e].res =
                                     IF o.err # ""
                                     THEN [email |-> "", err |-> "save failed: " \o o.err]
                                     ELSE call.task[e].res]
    /\ UNCHANGED <<cmd, cfg, proxyVars, handlerVars, ex, tokenVars, cli, static, prefs, bundle>>

\* <-ch in the caller of Subscribe
Receive(s) ==
    /\ call.pc = "mu"
    /\ s \in LockSubscribers
    /\ call.task[s].pc = "receive"
    /\ listeners[call.task[s].ch] > 0
    /\ listeners' = [listeners EXCEPT ![call.task[s].ch] = @ - 1]
    /\ call' = [call EXCEPT !.task[s].got = 1, !.task[s].pc = "done"]
    /\ UNCHANGED <<cmd, cfg, disk, captured, oauthToken, email, error, setTokenCalls,
                   handlerVars, ex, tokenVars, cli, static, prefs, bundle>>

(* ------------------------- the proxies' http.Client ------------------------- *)

\* CheckRedirect of both proxies' clients: return http.ErrUseLastResponse
DefaultCheckRedirect == "follow"
CheckRedirect == "ErrUseLastResponse"

\* rewriteGoogleURL
rewriteGoogleURL(u, port) ==
    ReplaceFirst(ReplaceFirst(u, "https://accounts.google.com",
                              "http://localhost:" \o FormatDec(port) \o "/glogin"),
                 "http://accounts.google.com",
                 "http://localhost:" \o FormatDec(port) \o "/glogin")

\* what an upstream host can answer: no connection, or a status, the Location
\* of a redirect, and a Content-Encoding of gzip with a body that gzip.NewReader
\* accepts ("ok") or refuses ("bad")
Locations ==
    { "", "https://accounts.google.com/signin", "http://accounts.google.com/x",
      "https://www.google.com/y" }

HopReplies ==
    { [neterr |-> TRUE, status |-> 0, location |-> "", gzip |-> ""] }
        \cup { [neterr |-> FALSE, status |-> st, location |-> "", gzip |-> z] :
                   st \in {200, 304, 404}, z \in {"", "ok", "bad"} }
        \cup { [neterr |-> FALSE, status |-> 302, location |-> l, gzip |-> z] :
                   l \in Locations, z \in {"", "ok", "bad"} }

\* the answers the upstream gives to the first request and to the requests a
\* client that follows redirects would send after it
RECURSIVE Chains(_)
Chains(n) ==
    IF n = 0 THEN {<<>>}
    ELSE LET shorter == Chains(n - 1)
         IN  shorter \cup {<<r>> \o c : r \in HopReplies, c \in {s \in shorter : Len(s) = n - 1}}

\* http.Client.Do: a 3xx with a Location is followed unless CheckRedirect
\* returns ErrUseLastResponse, in which case the 3xx itself is returned
RECURSIVE ClientDo(_, _, _)
ClientDo(chain, sent, policy) ==
    LET r == Head(chain)
    IN  IF r.neterr THEN [err |-> TRUE, resp |-> r, sent |-> sent + 1]
        ELSE IF /\ r.status \in {301, 302, 303, 307, 308}
                /\ r.location # ""
                /\ policy # "ErrUseLastResponse"
                /\ Tail(chain) # <<>>
        THEN ClientDo(Tail(chain), sent + 1, policy)
        ELSE [err |-> FALSE, resp |-> r, sent |-> sent + 1]

NoRelay == [status |-> 0, location |-> "", sent |-> 0]

\* googleProxyHandler from client.Do to WriteHeader
GoogleRelay(chain, port) ==
    LET d == ClientDo(chain, 0, CheckRedirect)
    IN  IF d.err THEN [status |-> 502, location |-> "", sent |-> d.sent]
        ELSE IF d.resp.gzip = "bad" THEN [status |-> 500, location |-> "", sent |-> d.sent]
        ELSE [status |-> d.resp.status, location |-> rewriteGoogleURL(d.resp.location, port),
              sent |-> d.sent]

\* staticProxyHandler: the checks of the path, then client.Do and the copy
StaticRelay(urlPath, chain) ==
    LET route == StaticPlan[urlPath][""]
        d     == ClientDo(chain, 0, CheckRedirect)
    IN  IF route.status # 0 THEN [status |-> route.status, location |-> "", sent |-> 0]
        ELSE IF d.err THEN [status |-> 502, location |-> "", sent |-> d.sent]
        ELSE [status |-> d.resp.status, location |-> d.resp.location, sent |-> d.sent]

\* an inbound request and what the upstream would answer
RelayCalls ==
    { [pc |-> "googleProxyHandler", path |-> "/glogin/signin", chain |-> c, out |-> NoRelay] :
          c \in Chains(MaxHops) \ {<<>>} }
        \cup { [pc |-> "staticProxyHandler", path |-> p, chain |-> c, out |-> NoRelay] :
                   p \in {"/gproxy/ssl.gstatic.com/a.css", "/gproxy/evil.com/a"},
                   c \in Chains(MaxHops) \ {<<>>} }

GoogleRelayCall ==
    /\ call.pc = "googleProxyHandler"
    /\ \E port \in Ports :
         call' = [call EXCEPT !.out = GoogleRelay(call.chain, port), !.pc = "relayed"]
    /\ UNCHANGED <<cmd, cfg, disk, proxyVars, handlerVars, ex, tokenVars, cli, static,
                   prefs, bundle>>

StaticRelayCall ==
    /\ call.pc = "staticProxyHandler"
    /\ call' = [call EXCEPT !.out = StaticRelay(call.path, call.chain), !.pc = "served"]
    /\ UNCHANGED <<cmd, cfg, disk, proxyVars, handlerVars, ex, tokenVars, cli, static,
                   prefs, bundle>>

(* --------------------------- RunWebViewLogin --------------------------- *)

\* the oauth_token values a page or the cookie store can deliver
WebViewTokens == {"", "tA", "tB"}

\* RunWebViewLogin and the CDP cookie manager. The bound functions and
\* cdpInvoke run one at a time on the UI thread; the safety timeout is a
\* goroutine of its own. outstanding, owner, last and first are history:
\* the CDP calls WebView2 has accepted and not completed, the request that
\* started the one outstanding, what became of the latest request, and the
\* first of the racing events with the first token handed to onTokenFound
WebViewStart ==
    [pc |-> "w.Run", globalInFlight |-> FALSE, globalOnToken |-> 0,
     outstanding |-> 0, owner |-> 0, requests |-> 0,
     last |-> [outcome |-> "none", idle |-> FALSE],
     once |-> FALSE, terminate |-> FALSE,
     result |-> [OAuthToken |-> "", Cancelled |-> FALSE, Error |-> ""],
     first |-> [event |-> "", token |-> ""],
     ret |-> [token |-> "", err |-> ""]]

\* onTokenFound without the sync.Once
onTokenFoundEveryTime(g, token) ==
    [g EXCEPT !.once = TRUE, !.result.OAuthToken = token, !.terminate = TRUE,
              !.first = IF g.first.event = "" THEN [event |-> "token", token |-> token] ELSE @]

\* onTokenFound: once.Do(result.OAuthToken = token; Dispatch(Terminate))
onTokenFound(g, token) ==
    IF g.once THEN g
    ELSE [g EXCEPT !.once = TRUE, !.result.OAuthToken = token, !.terminate = TRUE,
                   !.first = [event |-> "token", token |-> token]]

\* a RequestCookiesAsync that leaves globalInFlight set when the call fails to start
RequestCookiesAsyncNoReset(g, onToken, start) ==
    IF g.globalInFlight
    THEN [g EXCEPT !.last = [outcome |-> "skipped", idle |-> g.outstanding = 0]]
    ELSE [g EXCEPT !.globalInFlight = TRUE,
                   !.globalOnToken = onToken,
                   !.outstanding = IF start = "ok" THEN @ + 1 ELSE @,
                   !.owner = IF start = "ok" THEN onToken ELSE @,
                   !.last = [outcome |-> IF start = "ok" THEN "started" ELSE "failed",
                             idle |-> g.outstanding = 0]]

\* RequestCookiesAsync(w, onToken): skipped while a call is in flight; else the
\* callback is registered and the call started, and globalInFlight is reset
\* when the ICoreWebView2 pointer is missing or the call returns a failure
RequestCookiesAsync(g, onToken, start) ==
    IF g.globalInFlight
    THEN [g EXCEPT !.last = [outcome |-> "skipped", idle |-> g.outstanding = 0]]
    ELSE [g EXCEPT !.globalInFlight = (start = "ok"),
                   !.globalOnToken = onToken,
                   !.outstanding = IF start = "ok" THEN @ + 1 ELSE @,
                   !.owner = IF start = "ok" THEN onToken ELSE @,
                   !.last = [outcome |-> IF start = "ok" THEN "started" ELSE "failed",
                             idle |-> g.outstanding = 0]]

\* how a CDP call can complete: an error code, no JSON, JSON that does not
\* parse, cookies without oauth_token, or the cookie with its value
Completions ==
    {[kind |-> k, value |-> ""] : k \in {"errorCode", "empty", "parseError", "noToken"}}
        \cup {[kind |-> "oauth_token", value |-> t] : t \in WebViewTokens}

\* cdpInvoke
cdpInvoke(g, completion) ==
    LET cleared == [g EXCEPT !.globalInFlight = FALSE, !.outstanding = @ - 1, !.owner = 0]
    IN  IF completion.kind = "oauth_token" /\ g.globalOnToken # 0
        THEN onTokenFound(cleared, completion.value)
        ELSE cleared

\* the window is open and its message loop runs
Looping == call.pc = "w.Run"

\* the page calls __gauthExtractCookiesNow()
ExtractCookiesNow ==
    /\ Looping
    /\ call.requests < MaxRequests
    /\ \E start \in {"ok", "noPointer", "hresult"} :
         call' = [RequestCookiesAsync(call, call.requests + 1, start)
                     EXCEPT !.requests = call.requests + 1]
    /\ UNCHANGED <<cmd, cfg, disk, proxyVars, handlerVars, ex, tokenVars, cli, static,
                   prefs, bundle>>

\* WebView2 completes the outstanding CDP call
CdpCompleted ==
    /\ Looping
    /\ call.outstanding > 0
    /\ \E completion \in Completions : call' = cdpInvoke(call, completion)
    /\ UNCHANGED <<cmd, cfg, disk, proxyVars, handlerVars, ex, tokenVars, cli, static,
                   prefs, bundle>>

\* the page calls __gauthCallback(action, data)
GauthCallback ==
    /\ Looping
    /\ \E action \in {"token", "cancel", "log"}, data \in WebViewTokens :
         call' = CASE action = "token" -> onTokenFound(call, data)
                   [] action = "cancel" /\ ~call.once ->
                        [call EXCEPT !.once = TRUE, !.result.Cancelled = TRUE,
                                     !.terminate = TRUE,
                                     !.first = [event |-> "cancel", token |-> ""]]
                   [] OTHER -> call
    /\ call' # call
    /\ UNCHANGED <<cmd, cfg, disk, proxyVars, handlerVars, ex, tokenVars, cli, static,
                   prefs, bundle>>

\* the safety-timeout goroutine wakes up after five minutes
SafetyTimeout ==
    /\ call.pc \in {"w.Run", "returned"}
    /\ ~call.once
    /\ call' = [call EXCEPT !.once = TRUE, !.result.Error = "login timeout (5 minutes)",
                            !.terminate = TRUE,
                            !.first = IF call.pc = "w.Run"
                                      THEN [event |-> "timeout", token |-> ""] ELSE @]
    /\ UNCHANGED <<cmd, cfg, disk, proxyVars, handlerVars, ex, tokenVars, cli, static,
                   prefs, bundle>>

\* what RunWebViewLogin returns once w.Run() has returned
LoginReturn(res) ==
    IF res.Error # "" THEN [token |-> "", err |-> res.Error]
    ELSE IF res.Cancelled THEN [token |-> "", err |-> "login cancelled by user"]
    ELSE IF res.OAuthToken = ""
    THEN [token |-> "", err |-> "no oauth_token received; login may have failed"]
    ELSE [token |-> res.OAuthToken, err |-> ""]

\* w.Run() returns, after the dispatched Terminate or because the window was
\* closed, and RunWebViewLogin reads result
RunReturns ==
    /\ Looping
    /\ call' = [call EXCEPT !.pc = "returned", !.ret = LoginReturn(call.result)]
    /\ UNCHANGED <<cmd, cfg, disk, proxyVars, handlerVars, ex, tokenVars, cli, static,
                   prefs, bundle>>

(* --------------------------- specifications --------------------------- *)

Quiet ==
    /\ captured = FALSE
    /\ oauthToken = ""
    /\ email = ""
    /\ error = ""
    /\ listeners = <<>>
    /\ setTokenCalls = 0
    /\ hpc = [h \in Handlers |-> "idle"]
    /\ upstream = [h \in Handlers |-> NoUpstream]
    /\ cand = [h \in Handlers |-> <<>>]
    /\ lastOut = NoReply
    /\ ex = [h \in Handlers |-> NoTask]
    /\ tpc = [r \in TokenReqs |-> "idle"]
    /\ treq = [r \in TokenReqs |-> NoRequest]
    /\ tform = [r \in TokenReqs |-> NoForm]
    /\ tout = [r \in TokenReqs |-> NoAnswer]
    /\ cli = NoCli
    /\ static = <<>>

\* no library call under test, and the Android provider is not in the picture
LibQuiet ==
    /\ call = NoCall
    /\ prefs = NoPrefs
    /\ bundle = NoBundle

\* one /glogin request or its background exchange takes a step
ProxyStep(h) ==
    \/ ProxyRequest(h)
    \/ CheckCaptured(h)
    \/ CaptureToken(h)
    \/ WriteResponse(h)
    \/ ExchangeReturns(h)
    \/ StoreMasterToken(h)
    \/ StoreEmail(h)
    \/ SaveAndRecord(h)

\* a browser login session on a registered device: concurrent /glogin requests,
\* their exchanges, and the pollers of the session state
Init ==
    /\ cmd = "serve"
    /\ cfg \in ConfigsOnDisk \ {DefaultConfig}
    /\ disk = cfg
    /\ Quiet
    /\ LibQuiet

Next ==
    \/ \E h \in Handlers : ProxyStep(h)
    \/ SubscribeCall

Spec == Init /\ [][Next]_vars

\* a started handler runs to its end and a started goroutine is scheduled
Fairness ==
    \A h \in Handlers :
        /\ WF_vars(CheckCaptured(h) \/ CaptureToken(h) \/ WriteResponse(h))
        /\ WF_vars(ExchangeReturns(h) \/ StoreMasterToken(h) \/ StoreEmail(h) \/ SaveAndRecord(h))

FairSpec == Spec /\ Fairness

\* the token server next to a login, or one of the commands run in sequence
InitMain ==
    /\ cmd \in {"serve"} \cup CliCommands
    /\ disk \in ConfigsOnDisk
    /\ cfg = LoadFrom(disk)
    /\ Quiet
    /\ LibQuiet

NextMain ==
    \/ \E h \in 1..ApiHandlers : ProxyStep(h)
    \/ \E r \in TokenReqs : TokenRequest(r) \/ TokenFetch(r) \/ TokenSend(r) \/ TokenReply(r)
    \/ Run
    \/ CmdCheckin
    \/ LoginStart
    \/ LoginWebView
    \/ LoginExchange
    \/ CmdFetch

SpecMain == InitMain /\ [][NextMain]_vars

\* the commands other than serve, run one after the other on the same config file
InitCli ==
    /\ cmd \in CliCommands
    /\ disk \in ConfigsOnDisk
    /\ cfg = LoadFrom(disk)
    /\ Quiet
    /\ LibQuiet

NextCli ==
    \/ Run
    \/ CmdCheckin
    \/ LoginStart
    \/ LoginWebView
    \/ LoginExchange
    \/ CmdFetch

SpecCli == InitCli /\ [][NextCli]_vars

\* the static-resource proxy
InitStatic ==
    /\ cmd = "serve"
    /\ disk \in ConfigsOnDisk
    /\ cfg = LoadFrom(disk)
    /\ Quiet
    /\ LibQuiet

NextStatic == StaticRequest

SpecStatic == InitStatic /\ [][NextStatic]_vars

\* the protobuf codec: a message is encoded and read back, or bytes are read
InitProto ==
    /\ cmd = "checkin"
    /\ disk = DefaultConfig
    /\ cfg = LoadFrom(disk)
    /\ Quiet
    /\ call \in CodecCalls
    /\ prefs = NoPrefs
    /\ bundle = NoBundle

NextProto ==
    \/ EncodeCall
    \/ DecodeCall

SpecProto == InitProto /\ [][NextProto]_vars

\* the text functions of the auth client: a body is parsed, a token labelled
InitText ==
    /\ cmd = "serve"
    /\ disk = DefaultConfig
    /\ cfg = LoadFrom(disk)
    /\ Quiet
    /\ call \in TextCalls
    /\ prefs = NoPrefs
    /\ bundle = NoBundle

NextText ==
    \/ ParseCall
    \/ ClassifyCall

SpecText == InitText /\ [][NextText]_vars

\* the login proxy rewrites the text bodies it relays
InitRewrite ==
    /\ cmd = "serve"
    /\ disk = DefaultConfig
    /\ cfg = LoadFrom(disk)
    /\ Quiet
    /\ call \in RewriteCalls
    /\ prefs = NoPrefs
    /\ bundle = NoBundle

NextRewrite == RewriteCall

SpecRewrite == InitRewrite /\ [][NextRewrite]_vars

\* the Android token provider and the settings that guard it
InitProvider ==
    /\ cmd = "serve"
    /\ disk = DefaultConfig
    /\ cfg = LoadFrom(disk)
    /\ Quiet
    /\ LibQuiet

NextProvider ==
    \/ Call
    \/ SetAuthMode
    \/ SetPassword
    \/ AddAllowedSignature
    \/ RemoveAllowedSignature

SpecProvider == InitProvider /\ [][NextProvider]_vars

\* a login session at the grain of the ProxyState lock
InitLock ==
    /\ cmd = "serve"
    /\ disk \in {d \in ConfigsOnDisk : HasRegistration(d) /\ ~HasMasterToken(d)}
    /\ cfg = disk
    /\ Quiet
    /\ call = LockStart
    /\ prefs = NoPrefs
    /\ bundle = NoBundle

NextLock ==
    \E t \in LockTasks :
        \/ MuLock(t)
        \/ Critical(t)
        \/ MuUnlock(t)
        \/ UpstreamReply(t)
        \/ GoExchange(t)
        \/ Respond(t)
        \/ ExchangeReply(t)
        \/ SaveReply(t)
        \/ Receive(t)

SpecLock == InitLock /\ [][NextLock]_vars

\* a goroutine that holds the lock is runnable and the scheduler runs it; the
\* network, the disk and the callers of Subscribe owe nothing
FairLock == \A t \in LockTasks : WF_vars(Critical(t)) /\ WF_vars(MuUnlock(t))

FairSpecLock == SpecLock /\ FairLock

\* one request through either proxy
InitRelay ==
    /\ cmd = "serve"
    /\ disk = DefaultConfig
    /\ cfg = LoadFrom(disk)
    /\ Quiet
    /\ call \in RelayCalls
    /\ prefs = NoPrefs
    /\ bundle = NoBundle

NextRelay ==
    \/ GoogleRelayCall
    \/ StaticRelayCall

SpecRelay == InitRelay /\ [][NextRelay]_vars

\* one RunWebViewLogin, from w.Run() to its return
InitWebView ==
    /\ cmd = "login"
    /\ disk \in {d \in ConfigsOnDisk : HasRegistration(d)}
    /\ cfg = LoadFrom(disk)
    /\ Quiet
    /\ call = WebViewStart
    /\ prefs = NoPrefs
    /\ bundle = NoBundle

NextWebView ==
    \/ ExtractCookiesNow
    \/ CdpCompleted
    \/ GauthCallback
    \/ SafetyTimeout
    \/ RunReturns

SpecWebView == InitWebView /\ [][NextWebView]_vars

(* ------------------------------- claims ------------------------------- *)

Storing == {"storeToken", "storeEmail", "save"}

\* handler h dispatched an exchange
Dispatched(h) == ex[h].pc # "none"

\* C1: first-writer-wins. Once the session is captured, no later capture attempt
\* writes oauthToken again: every step taken in a captured state leaves
\* oauthToken as it is.
C1_FirstWriterWins == [][captured => oauthToken' = oauthToken]_vars

\* C2: at most one background exchange is dispatched in a session, however many
\* concurrent responses carry the oauth_token cookie.
C2_SingleExchange == Cardinality({h \in Handlers : Dispatched(h)}) <= 1

\* C3: the handler never waits for the exchange. In every reachable state a
\* started handler has its next step enabled, and a handler that has scanned its
\* cookies can write its response, whose status and cookies are those relayed
\* from the upstream response alone, whether its exchange is not started,
\* running or finished.
C3_ResponseNotBlocked ==
    \A h \in Handlers :
        /\ hpc[h] = "check" => ENABLED CheckCaptured(h)
        /\ hpc[h] = "set" => ENABLED CaptureToken(h)
        /\ hpc[h] = "respond" =>
              ENABLED (WriteResponse(h) /\ lastOut' = Relay(upstream[h]) /\ hpc'[h] = "done")

\* C3 witness: a capturing handler is about to answer while its exchange is
\* still waiting for the auth endpoint.
C3_Witness == \E h \in Handlers : hpc[h] = "respond" /\ ex[h].pc = "calling"

\* C4: the session never moves backward. captured, once true, stays true over
\* every step, and the steps that are an IsCaptured or a Subscribe call leave
\* captured, oauthToken, email and error unchanged.
C4_NeverBackward ==
    [][ /\ captured => captured'
        /\ (SubscribeCall \/ \E h \in Handlers : CheckCaptured(h))
              => UNCHANGED <<captured, oauthToken, email, error>> ]_vars

\* C4 witness: SetToken, SetResult and a Subscribe after the capture have all
\* happened, and a handler is asking IsCaptured.
C4_Witness ==
    /\ captured
    /\ error # ""
    /\ listeners = <<1>>
    /\ \E h \in Handlers : hpc[h] = "check"

C6_FailureKeepsCredential ==
    [][ \A h \in Handlers :
          ( /\ setTokenCalls = 1
            /\ ex[h].pc \in {"calling", "save"}
            /\ HasMasterToken(ex[h].before.cfg)
            /\ ex'[h].pc = "done"
            /\ error' # "" )
          => /\ cfg'.MasterToken = ex[h].before.cfg.MasterToken
             /\ cfg'.Email = ex[h].before.cfg.Email
             /\ disk' = ex[h].before.disk ]_vars

\* the request failed, or its 200 response has no field 7 or a zero one
FailedCheckin(reply) ==
    \/ reply.neterr
    \/ reply.status # 200
    \/ reply.f7.type = "absent"
    \/ reply.f7.val = 0

\* the step runs doCheckin (from cmdCheckin or from cmdLogin)
CheckinAttempt == cli.pc = "start" /\ cli'.checkin # NoCheckin

C8_Unauthorized ==
    [][ \A r \in TokenReqs :
          (tpc[r] = "idle" /\ tpc'[r] # "idle" /\ ~HasMasterToken(cfg))
             => (tout'[r].status = 401 /\ tout'[r].token = "") ]_vars

\* C8, amended: no service-credential request is sent without a master token.
\* A request to /api/token that arrives while the config has no master token is
\* answered at once, 405 if its method is neither GET nor POST and 401
\* otherwise, without a token and without a request to the auth endpoint;
\* FetchServiceToken called on a config without master token sends nothing and
\* its caller fails (the handler with 500, `gauth fetch` with exit code 1); a
\* form is built only after the check has seen a master token.
C8_NoFetchWithoutMasterToken ==
    [][ /\ \A r \in TokenReqs :
            /\ (tpc[r] = "idle" /\ tpc'[r] # "idle" /\ ~HasMasterToken(cfg))
                  => /\ tpc'[r] = "done"
                     /\ tout'[r].status \in {401, 405}
                     /\ tout'[r].token = ""
                     /\ tform'[r] = NoForm
            /\ (tpc[r] = "fetch" /\ tpc'[r] # "fetch" /\ ~HasMasterToken(cfg))
                  => /\ tpc'[r] = "done"
                     /\ tout'[r].status = 500
                     /\ tout'[r].token = ""
                     /\ tform'[r] = NoForm
            /\ (tpc[r] = "fetch" /\ tpc'[r] = "send") => HasMasterToken(cfg)
        /\ (cmd = "fetch" /\ cli.pc = "start" /\ cli'.pc = "exit" /\ ~HasMasterToken(cfg))
              => (cli'.code = 1 /\ ~cli'.form.sent /\ cli'.token = "")
        /\ cli'.form.sent => (cli'.form.Email # "" /\ cli'.form.Token # "") ]_vars

\* C8 witness: a GET or POST to /api/token of a server that is not logged in was
\* answered 401, and nothing was sent for it.
C8_Witness ==
    \E r \in TokenReqs :
        /\ tpc[r] = "done"
        /\ tout[r].status = 401
        /\ tout[r].token = ""
        /\ tform[r] = NoForm
        /\ ~HasMasterToken(cfg)

\* C9 as stated: an empty Auth is a failure everywhere. An exchange goes on to
\* store a master token, and a login ends other than by its fatal exit, only on
\* a response whose Auth is non-empty; /api/token and `gauth fetch` return a
\* token only if Auth is non-empty.
C9_EmptyAuthFails ==
    [][ /\ \A h \in Handlers : ex'[h].pc \in Storing => ex'[h].resp.Auth # ""
        /\ (cmd = "login" /\ cli.pc = "exchange" /\ cli'.pc = "exit" /\ cli'.resp.Auth = "")
              => (cli'.code = 1 /\ UNCHANGED <<cfg, disk>>)
        /\ \A r \in TokenReqs :
              (tout'[r].status = 200 \/ tout'[r].token # "") => tout'[r].auth # ""
        /\ (cmd = "fetch" /\ cli'.pc = "exit" /\ cli'.code = 0) => cli'.resp.Auth # "" ]_vars

\* C9, amended: for the master-token exchange (exchangeToken, cmdLogin) the
\* operation fails when Token and Auth are both empty, and otherwise stores
\* Token, or Auth if Token is empty, even when Auth is empty; for the service
\* token (/api/token, `gauth fetch`) an empty Auth is a failure whatever the
\* HTTP status, and the token returned is the non-empty Auth.
C9_EmptyTokenFails ==
    [][ /\ \A h \in Handlers :
              ex'[h].pc \in Storing
                 => /\ ex'[h].resp.Token # "" \/ ex'[h].resp.Auth # ""
                    /\ ex'[h].masterToken # ""
                    /\ ex'[h].masterToken = MasterTokenOf(ex'[h].resp)
        /\ \A h \in Handlers :
              (ex[h].pc = "storeToken" /\ ex'[h].pc = "storeEmail")
                 => (cfg'.MasterToken = ex[h].masterToken /\ cfg'.MasterToken # "")
        /\ (cmd = "login" /\ cli.pc = "exchange" /\ cli'.pc = "exit"
                /\ cli'.resp.Token = "" /\ cli'.resp.Auth = "")
              => (cli'.code = 1 /\ UNCHANGED <<cfg, disk>>)
        /\ (cmd = "login" /\ cli.pc = "exchange" /\ cfg' # cfg)
              => (cfg'.MasterToken = MasterTokenOf(cli'.resp) /\ cfg'.MasterToken # "")
        /\ \A r \in TokenReqs :
              /\ (tout'[r].status = 200 \/ tout'[r].token # "")
                    => (tout'[r].auth # "" /\ tout'[r].token = tout'[r].auth
                            /\ tout'[r].upstream = 200)
              /\ (tpc[r] = "await" /\ tpc'[r] = "done" /\ tout'[r].auth = "")
                    => (tout'[r].status = 500 /\ tout'[r].token = "")
        /\ (cmd = "fetch" /\ cli'.pc = "exit" /\ cli'.form.sent /\ cli'.resp.Auth = "")
              => (cli'.code = 1 /\ cli'.token = "")
        /\ (cmd = "fetch" /\ cli'.pc = "exit" /\ cli'.code = 0)
              => (cli'.resp.Auth # "" /\ cli'.token = cli'.resp.Auth) ]_vars

\* C9 witness: an exchange is storing the master token of a 200 response whose
\* Auth is empty and whose Token is not.
C9_Witness ==
    \E h \in Handlers :
        /\ ex[h].pc = "save"
        /\ ex[h].resp.Auth = ""
        /\ ex[h].resp.Token # ""
        /\ cfg.MasterToken = ex[h].resp.Token

\* C10: the static-resource proxy contacts authorized hosts only. Every host it
\* has sent an upstream request to passes the domain check, and every request
\* whose domain fails the check was answered with a client error without any
\* upstream request.
C10_AuthorizedHostsOnly ==
    \A i \in 1..Len(static) :
        /\ static[i].host # "" => DomainAllowed(static[i].host)
        /\ ~DomainAllowed(static[i].domain)
              => (static[i].status \in 400..499 /\ static[i].host = "")

\* what was handed to Encode for the one field of the request
Given(v) == IF v.t = "[]interface{}" THEN v.items ELSE <<v>>

IntegerTypes == {"int", "int32", "int64", "uint64"}

\* the request is one integer for a field of type integer
IntegerCase ==
    /\ DOMAIN call.message = {"1"}
    /\ DOMAIN call.schema = {"1"}
    /\ call.schema["1"].Type = TypeInt
    /\ call.message["1"].t \in IntegerTypes

\* C11: integer round trip. Every integer v accepted for a field of type
\* integer (0, 127, 128, the value that stands for 2^63, every negative
\* value) comes back from DecodeMessage(Encode({k: v})) as exactly v.
C11_IntegerRoundTrip ==
    (call.pc = "decoded" /\ IntegerCase) =>
        /\ call.dec.status = "ok"
        /\ DOMAIN call.dec.fields = {"1"}
        /\ call.dec.fields["1"].t = "int64"
        /\ call.dec.fields["1"].n = call.message["1"].n

\* the first field of data stops short: its varint has no last byte, its
\* fixed32/fixed64 payload has fewer than 4/8 bytes, or its announced length
\* is more than the bytes that follow (counted as integers, without wrapping)
CutOff(data) ==
    /\ Len(data) >= 1
    /\ data[1] < 128
    /\ \/ data[1] % 8 = WireVarint /\ \A i \in 2..Len(data) : data[i] >= 128
       \/ data[1] % 8 = WireFixed64 /\ Len(data) - 1 < 8
       \/ data[1] % 8 = WireFixed32 /\ Len(data) - 1 < 4
       \/ /\ data[1] % 8 = WireBytes
          /\ \/ \A i \in 2..Len(data) : data[i] >= 128
             \/ /\ Uvarint(From(data, 1)).n > 0
                /\ 1 + Uvarint(From(data, 1)).n + Uvarint(From(data, 1)).val > Len(data)

\* C12: truncated input fails cleanly. DecodeMessage returns an error (it
\* neither panics nor returns a mapping) whenever a varint is cut off, a
\* fixed32/fixed64 payload is short, or a length-delimited field announces a
\* length, whatever its value, that runs past the end of the buffer.
C12_TruncatedFails ==
    (call.pc = "decoded" /\ CutOff(call.data)) => call.dec.status = "error"

\* the request is one repeated field
RepeatedCase ==
    /\ DOMAIN call.message = {"3"}
    /\ DOMAIN call.schema = {"3"}
    /\ call.schema["3"].Repeated

\* the bytes are n times field 1 as a one-byte varint
Occurrences(data) ==
    /\ Len(data) > 0
    /\ Len(data) % 2 = 0
    /\ \A i \in 1..Len(data) : IF i % 2 = 1 THEN data[i] = 8 ELSE data[i] < 64

\* one value is stored as it is, two or more as the sequence in encounter order
Accumulated(items) == IF Len(items) = 1 THEN items[1] ELSE GoSlice(items)

\* C13: repeated fields keep count and order. A field number seen once
\* decodes to a scalar; seen n >= 2 times it decodes to the sequence of its n
\* values in the order they were met; a repeated field encoded from [a, b, c]
\* decodes to [a, b, c].
C13_CountAndOrder ==
    /\ (call.pc = "decoded" /\ RepeatedCase) =>
           /\ call.dec.status = "ok"
           /\ DOMAIN call.dec.fields = {"3"}
           /\ call.dec.fields["3"] = Accumulated(Given(call.message["3"]))
    /\ (call.pc = "decoded" /\ Occurrences(call.data)) =>
           /\ call.dec.status = "ok"
           /\ DOMAIN call.dec.fields = {"1"}
           /\ call.dec.fields["1"] =
                  Accumulated([i \in 1..(Len(call.data) \div 2) |-> GoInt64(call.data[2 * i])])

\* a list of three different-looking items was encoded and read back, and
\* three occurrences were read from the wire
C13_Witness ==
    /\ call.pc = "decoded"
    /\ \/ /\ RepeatedCase
          /\ Len(Given(call.message["3"])) = 3
          /\ Given(call.message["3"])[1] # Given(call.message["3"])[3]
          /\ call.dec.fields["3"].t = "[]interface{}"
       \/ call.data = <<8, 1, 8, 2, 8, 3>>

\* every key of the message is a field number Atoi accepts
Accepted(message) == \A k \in DOMAIN message : ~Atoi(k).err

\* C14: Encode is deterministic. For every set of keys the encoder accepts,
\* the bytes it produces are a function of the contents of the mapping alone.
C14_Deterministic ==
    (call.pc = "Encode" /\ Accepted(call.message)) =>
        Cardinality(Encode(call.message, call.schema)) = 1

\* the value fits the type the schema gives its field
Consistent(v, def) ==
    /\ ~def.Repeated
    /\ \/ def.Type = TypeInt /\ v.t \in IntegerTypes
       \/ def.Type = TypeBool /\ v.t = "bool"
       \/ def.Type = TypeString /\ v.t = "string"
       \/ def.Type = TypeBytes /\ v.t \in {"[]byte", "string"}

\* the request is a mapping of scalars consistent with the schema
ScalarCase ==
    /\ DOMAIN call.message # {}
    /\ \A k \in DOMAIN call.message :
           k \in DOMAIN call.schema /\ Consistent(call.message[k], call.schema[k])

\* the decoded value d stands for the encoded value v
Equivalent(v, d) ==
    CASE v.t \in IntegerTypes       -> d.t = "int64" /\ d.n = v.n
      [] v.t = "bool"               -> d.t = "int64" /\ d.n = (IF v.b THEN 1 ELSE 0)
      [] v.t \in {"string", "[]byte"} -> d.t \in {"string", "[]byte"} /\ d.bs = v.bs
      [] OTHER                      -> FALSE

\* the payload reads as a non-empty nested message
ReadsAsMessage(v) ==
    /\ v.t \in {"string", "[]byte"}
    /\ DecodeMessage(v.bs).status = "ok"
    /\ DOMAIN DecodeMessage(v.bs).fields # {}

\* C15: scalar round trip. Decoding the encoding of a mapping of text,
\* boolean, integer and byte values returns the same field numbers, each with
\* an equivalent value, the only exception being a text or bytes payload
\* that reads as a non-empty nested message.
C15_ScalarRoundTrip ==
    (call.pc = "decoded" /\ ScalarCase) =>
        /\ call.dec.status = "ok"
        /\ DOMAIN call.dec.fields = DOMAIN call.message
        /\ \A k \in DOMAIN call.message :
               \/ Equivalent(call.message[k], call.dec.fields[k])
               \/ ReadsAsMessage(call.message[k])

\* the lines of a response body, and the key and value of a line
BodyLines(body) == Split(ReplaceAll(body, "\r\n", "\n"), "\n")
IsPair(line) == Index(line, "=") > 0
KeyOf(line) == SubSeq(line, 1, Index(line, "="))
ValueOf(line) == SubSeq(line, Index(line, "=") + 2, Len(line))

\* the value RawFields holds for a key, empty when the key is absent
Raw(r, key) == IF key \in DOMAIN r.RawFields THEN r.RawFields[key] ELSE ""

\* each recognised structured field is RawFields at its key
StructuredAgree(r) ==
    /\ r.Auth = Raw(r, "Auth") /\ r.Token = Raw(r, "Token") /\ r.Email = Raw(r, "Email")
    /\ r.Sid = Raw(r, "SID") /\ r.LSid = Raw(r, "LSID") /\ r.Services = Raw(r, "services")
    /\ r.FirstName = Raw(r, "firstName") /\ r.LastName = Raw(r, "lastName")
    /\ r.AccountID = Raw(r, "accountId") /\ r.IssueAdvice = Raw(r, "issueAdvice")
    /\ r.GrantedScopes = Raw(r, "grantedScopes") /\ r.Error = Raw(r, "Error")

\* C16 as stated: parseAuthResponse never drops or alters a pair. Every line
\* key=value of the body with a non-empty key is in RawFields with that key
\* mapped to that value verbatim, and every structured field equals
\* RawFields at its key.
C16_EveryPairVerbatim ==
    call.pc = "parsed" =>
        /\ \A i \in DOMAIN BodyLines(call.body) :
               IsPair(BodyLines(call.body)[i]) =>
                   /\ KeyOf(BodyLines(call.body)[i]) \in DOMAIN call.r.RawFields
                   /\ call.r.RawFields[KeyOf(BodyLines(call.body)[i])]
                          = ValueOf(BodyLines(call.body)[i])
        /\ StructuredAgree(call.r)

\* line i, with the white space around it removed
Trimmed(body, i) == TrimSpace(BodyLines(body)[i])

\* no later line of the body has the key of line i
LastOfKey(body, i) ==
    \A j \in DOMAIN BodyLines(body) :
        j > i => ~(IsPair(Trimmed(body, j)) /\ KeyOf(Trimmed(body, j)) = KeyOf(Trimmed(body, i)))

\* C16 as the code has it: a line is read with the white space around it
\* removed, and a key that comes twice keeps the value of its last line.
\* Every such line key=value with a non-empty key has its key in RawFields,
\* mapped to the value of the last line with that key; RawFields has no
\* other key; every structured field equals RawFields at its key (so a line
\* 'Error=' gives an empty Error with the key Error present).
C16_LastPairKept ==
    call.pc = "parsed" =>
        /\ \A i \in DOMAIN BodyLines(call.body) :
               IsPair(Trimmed(call.body, i)) =>
                   /\ KeyOf(Trimmed(call.body, i)) \in DOMAIN call.r.RawFields
                   /\ LastOfKey(call.body, i) =>
                          call.r.RawFields[KeyOf(Trimmed(call.body, i))]
                              = ValueOf(Trimmed(call.body, i))
        /\ \A k \in DOMAIN call.r.RawFields :
               \E i \in DOMAIN BodyLines(call.body) :
                   IsPair(Trimmed(call.body, i)) /\ KeyOf(Trimmed(call.body, i)) = k
        /\ StructuredAgree(call.r)

\* a CRLF body with the key Auth twice was parsed, and the last value kept
C16_Witness ==
    /\ call.pc = "parsed"
    /\ call.body = "Auth=ya29.a1\r\nAuth=b\r\n"
    /\ call.r.Auth = "b"
    /\ call.r.RawFields["Auth"] = "b"

\* the label is that of the class whose prefix the token has
Labelled(label, auth, aes, oauth2, unknown, isAes, isOauth2) ==
    /\ label = aes <=> isAes
    /\ label = oauth2 <=> (~isAes /\ isOauth2)
    /\ label = unknown <=> (~isAes /\ ~isOauth2)

\* C17 as stated: the token type is an exact prefix test. The class is
\* 'aas_et/' exactly when the token starts with "aas_et/", 'ya29.' exactly
\* when it starts with "ya29.", unknown otherwise, and the /api/token
\* handler and the fetch command agree.
C17_PrefixTest ==
    call.pc = "classified" =>
        /\ Labelled(call.handler, call.auth, "aes", "oauth2", "unknown",
                    HasPrefix(call.auth, "aas_et/"), HasPrefix(call.auth, "ya29."))
        /\ Labelled(call.fetch, call.auth, "AES (1P)", "OAuth2", "Unknown",
                    HasPrefix(call.auth, "aas_et/"), HasPrefix(call.auth, "ya29."))

\* C17 as the code has it: the token must start with the prefix and go on
\* after it; a token that is just "aas_et/" or "ya29." is unknown. The
\* handler and the fetch command agree.
C17_PrefixAndMore ==
    call.pc = "classified" =>
        /\ Labelled(call.handler, call.auth, "aes", "oauth2", "unknown",
                    HasPrefix(call.auth, "aas_et/") /\ Len(call.auth) > Len("aas_et/"),
                    HasPrefix(call.auth, "ya29.") /\ Len(call.auth) > Len("ya29."))
        /\ Labelled(call.fetch, call.auth, "AES (1P)", "OAuth2", "Unknown",
                    HasPrefix(call.auth, "aas_et/") /\ Len(call.auth) > Len("aas_et/"),
                    HasPrefix(call.auth, "ya29.") /\ Len(call.auth) > Len("ya29."))

\* a token that is nothing but the prefix was labelled
C17_Witness ==
    /\ call.pc = "classified"
    /\ call.auth = "aas_et/"
    /\ call.handler = "unknown"
    /\ call.fetch = "Unknown"

\* the hosts rewriteBodyURLs sends through the proxy, and their spellings
ProxiedHosts == {"accounts.google.com"} \cup {staticDomains[i] : i \in DOMAIN staticDomains}
Spellings(host) == {"https://" \o host, "https:\\/\\/" \o host, "//" \o host}

\* the local form a host is rewritten to, plain or JSON-escaped
LocalForms(host, port) ==
    IF host = "accounts.google.com"
    THEN {"http://localhost:" \o FormatDec(port) \o "/glogin",
          "http://localhost:" \o FormatDec(port) \o "\\/glogin"}
    ELSE {"http://localhost:" \o FormatDec(port) \o "/gproxy/" \o host,
          "http://localhost:" \o FormatDec(port) \o "\\/gproxy\\/" \o host}

\* C18: rewriteBodyURLs rewrites all three spellings of the upstream origin
\* (and of each static domain) to the local-proxy form: the output contains
\* none of the spellings, an input with a spelling of a host gets the local
\* form of that host, and a text with no spelling at all is returned as it is.
C18_NoUpstreamOrigin ==
    call.pc = "rewritten" =>
        /\ \A h \in ProxiedHosts : \A sp \in Spellings(h) : ~Contains(call.out, sp)
        /\ \A h \in ProxiedHosts :
               (\E sp \in Spellings(h) : Contains(call.content, sp))
                   => \E f \in LocalForms(h, call.port) : Contains(call.out, f)
        /\ (\A h \in ProxiedHosts : \A sp \in Spellings(h) : ~Contains(call.content, sp))
               => call.out = call.content

\* a page with the escaped origin and a protocol-relative static URL was rewritten
C18_Witness ==
    /\ call.pc = "rewritten"
    /\ Contains(call.content, "https:\\/\\/accounts.google.com")
    /\ Contains(call.content, "//play.google.com")
    /\ call.out # call.content

\* the caller has no right to an answer under these preferences: in
\* SIGNATURE mode (the default) none of its signatures is on the allow list,
\* whatever password it sends; in PASSWORD mode no password is set or the
\* hash of the one it sends is not the stored hash
Unauthorized(p, caller, password) ==
    IF p.auth_mode \in {Null, "SIGNATURE"}
    THEN \/ caller \notin DOMAIN PackageSignatures
         \/ PackageSignatures[caller] \cap p.allowed_signatures = {}
    ELSE p.password_hash = Null \/ p.password_hash # hashPassword(password)

\* C19: TokenManagerProvider.call never discloses a credential to an
\* unauthorized caller. Whatever the method and the argument, a call made
\* by a caller that is not authorized under the current mode is answered
\* with success = false, no token and no authString, and the token service
\* is not used for it.
C19_NoDisclosure ==
    [][(bundle'.calls = bundle.calls + 1 /\ Unauthorized(prefs, bundle'.caller, bundle'.password))
          => /\ ~bundle'.out.success
             /\ bundle'.out.token = Null
             /\ bundle'.out.authString = Null
             /\ bundle'.out.fetched = 0]_vars

\* in SIGNATURE mode, a caller off the allow list sent the stored password
\* and was turned away
C19_Witness ==
    /\ bundle.calls > 0
    /\ prefs.auth_mode = "SIGNATURE"
    /\ prefs.password_hash = hashPassword("pw1")
    /\ bundle.password = "pw1"
    /\ Unauthorized(prefs, bundle.caller, bundle.password)
    /\ bundle.out.error = "Unauthorized. Check signature or password."

\* C20: every successful registration yields two non-zero identifiers.
\* Whenever a check-in attempt gets a Result without error, both AndroidID
\* and SecurityToken of the Result are non-zero, and the registration that
\* doCheckin puts in cfg has no zero security token.
C20_BothIdentifiersNonZero ==
    [][(CheckinAttempt /\ Checkin(cli'.checkin).err = "")
          => /\ Checkin(cli'.checkin).AndroidID # 0
             /\ Checkin(cli'.checkin).SecurityToken # 0
             /\ cfg'.SecurityToken # FormatDec(0)]_vars

(* ------------------------------ C21 ------------------------------ *)

RECURSIVE HasBadKey(_)
RECURSIVE HoldsBadKey(_)

\* the message has, at some nesting level, a key strconv.Atoi rejects
HasBadKey(message) ==
    \E k \in DOMAIN message : Atoi(k).err \/ HoldsBadKey(message[k])

HoldsBadKey(v) ==
    CASE v.t = "map[string]interface{}" -> HasBadKey(v.m)
      [] v.t = "[]interface{}" -> \E i \in DOMAIN v.items : HoldsBadKey(v.items[i])
      [] OTHER -> FALSE

\* the keys of the message that are numbers, and those that are not
BadKeys(message) == {k \in DOMAIN message : Atoi(k).err}
Numbered(message) == DOMAIN message \ BadKeys(message)

HolderInside ==
    /\ \A t \in LockTasks : call.task[t].mu # "" <=> call.holder = t
    /\ \A t \in LockTasks :
          call.holder = t
              => /\ call.task[t].pc \in LockedMethods
                 /\ call.task[t].pc \notin BlockingPoints
                 /\ call.task[t].mu = "held" => ENABLED Critical(t)
                 /\ call.task[t].mu = "ran" => ENABLED MuUnlock(t)

\* C22: the ProxyState lock is never held across network I/O or a blocking
\* operation. A goroutine that holds s.mu is inside SetToken, SetResult,
\* IsCaptured or Subscribe, at no point where it waits for the network, the
\* disk or a channel, its next step is always enabled (SetToken's sends
\* included, whatever the listeners' buffers hold), and every acquisition is
\* eventually followed by the release.
C22_LockNeverHeldAcrossIO ==
    /\ []HolderInside
    /\ \A t \in LockTasks : (call.holder = t) ~> (call.holder = 0)

\* a second SetToken has run, under the lock, with a listener's buffer full,
\* while an exchange is waiting for the network
C22_Witness ==
    /\ call.pc = "mu"
    /\ \E t \in LockHandlers :
         /\ call.holder = t
         /\ call.task[t].pc = "SetToken"
         /\ call.task[t].mu = "ran"
    /\ setTokenCalls = 2
    /\ \E i \in DOMAIN listeners : listeners[i] = ChanCap
    /\ \E e \in LockExchanges : call.task[e].pc = "ExchangeOAuthForMaster"

(* ------------------------------ C23 ------------------------------ *)

\* an exchangeToken goroutine has written cfg.MasterToken and not yet cfg.Email
HalfUpdated == \E h \in 1..ApiHandlers : ex[h].pc = "storeEmail"

\* a /api/token request reads cfg: in the handler's cfg.HasMasterToken(), in
\* FetchServiceToken's own check, or when the form is filled in
ReadsConfig == \E r \in TokenReqs : tpc[r] \in {"idle", "fetch", "send"} /\ tpc'[r] # tpc[r]

\* C23: the session capture state is the only state shared between request
\* handlers and background tasks; in particular no /api/token request reads
\* the config while an exchange has written MasterToken and not yet Email.
C23_ConfigNeverSeenHalfUpdated == [][ReadsConfig => ~HalfUpdated]_vars

(* ------------------------------ C24 ------------------------------ *)

\* SetResult has recorded the outcome of an exchange of this session
Resolved == \E h \in Handlers : ex[h].pc = "done" /\ ex[h].calls > 0

\* C24: Resolved is terminal. Once SetResult has recorded the outcome of the
\* session's exchange, the email and error fields of the ProxyState never
\* change again; in particular a recorded success is never replaced by a
\* later error.
C24_ResolvedIsTerminal == [][Resolved => email' = email /\ error' = error]_vars

(* ------------------------------ C25 ------------------------------ *)

Relayed == call.pc \in {"relayed", "served"}
FirstReply == Head(call.chain)

\* the request got as far as client.Do
Forwarded == call.pc = "relayed" \/ StaticPlan[call.path][""].status = 0

C26_OneCallOutstanding ==
    call.pc \in {"w.Run", "returned"} =>
        /\ call.outstanding <= 1
        /\ call.globalInFlight <=> call.outstanding = 1
        /\ call.outstanding = 1 => call.globalOnToken = call.owner
        /\ call.last.outcome = "skipped" => ~call.last.idle

\* a request was skipped while the call of the first request is outstanding,
\* after which the callback of the first request is still the registered one
C26_Witness ==
    /\ call.pc = "w.Run"
    /\ call.requests = 2
    /\ call.last.outcome = "skipped"
    /\ call.outstanding = 1
    /\ call.globalOnToken = 1

(* ------------------------------ C28 ------------------------------ *)

\* the outcomes recorded in result
OutcomesSet ==
    {k \in {"OAuthToken", "Cancelled", "Error"} :
        CASE k = "OAuthToken" -> call.result.OAuthToken # ""
          [] k = "Cancelled"  -> call.result.Cancelled
          [] k = "Error"      -> call.result.Error # ""}

\* C28: RunWebViewLogin records one terminal outcome. Among token-found (JS
\* callback or CDP callback), cancel and the safety timeout only the first
\* takes effect: at most one of result.OAuthToken, result.Cancelled and
\* result.Error is set, the stored token is the first token delivered and is
\* never overwritten, and a token is returned only if token-found came first.
C28_FirstEventWins ==
    call.pc \in {"w.Run", "returned"} =>
        /\ Cardinality(OutcomesSet) <= 1
        /\ call.result.OAuthToken = (IF call.first.event = "token" THEN call.first.token ELSE "")
        /\ call.result.Cancelled <=> call.first.event = "cancel"
        /\ call.first.event = "timeout" => call.result.Error # ""
        /\ (call.pc = "returned" /\ call.ret.token # "")
              => /\ call.first.event = "token"
                 /\ call.ret = [token |-> call.first.token, err |-> ""]

\* the token found by a CDP call has been returned, the message loop having
\* run on after it was stored
C28_Witness ==
    /\ call.pc = "returned"
    /\ call.ret = [token |-> "tA", err |-> ""]
    /\ call.first = [event |-> "token", token |-> "tA"]
    /\ call.requests = MaxRequests
    /\ call.last.outcome = "started"
    /\ call.outstanding = 1

(* ------------------------------ C27 ------------------------------ *)

\* the notifications the caller of Subscribe has taken from channel i
Delivered(i) ==
    IF \E s \in LockSubscribers : call.task[s].ch = i /\ call.task[s].got > 0 THEN 1 ELSE 0

\* C27: no lost wake-up. Whatever the interleaving of Subscribe and SetToken,
\* in every state where captured is true each channel handed out by Subscribe
\* holds, or has delivered, at least one notification, and while captured is
\* false no channel holds one.
C27_NoLostWakeup ==
    call.pc = "mu" =>
        \A i \in DOMAIN listeners :
            /\ captured => listeners[i] + Delivered(i) >= 1
            /\ ~captured => listeners[i] = 0

\* a channel has delivered the notification of the first SetToken and holds
\* that of the second
C27_Witness ==
    /\ call.pc = "mu"
    /\ captured
    /\ setTokenCalls = 2
    /\ \E i \in DOMAIN listeners : listeners[i] = 1 /\ Delivered(i) = 1

(* ------------------------------ C29 ------------------------------ *)

\* a background exchange has recorded a result, and the error recorded is empty
ResolvedSuccess == Resolved /\ error = ""

\* C29: a resolved-success session is a logged-in session. In every state
\* where a background exchange has recorded a result with an empty error, the
\* config holds a usable credential (cfg.HasMasterToken()) and the email
\* recorded in the ProxyState equals cfg.Email.
C29_SuccessIsLoggedIn == ResolvedSuccess => HasMasterToken(cfg) /\ email = cfg.Email

(* ------------------------------ C30 ------------------------------ *)

\* the buffer is one length-delimited field whose declared length is exactly
\* the length of what follows: the enclosing message is well formed, whatever
\* its payload
OneDelimitedField(data) ==
    /\ Len(data) >= 2
    /\ data[1] < 128
    /\ data[1] % 8 = WireBytes
    /\ data[2] < 128
    /\ data[2] = Len(data) - 2

\* C30: DecodeMessage terminates on every finite byte buffer, by returning a
\* result or an error, and a failed nested-decode attempt is absorbed by the
\* text/bytes fallback: a buffer that is one well-formed length-delimited
\* field decodes without error whatever its payload holds.
C30_NestedFailureAbsorbed ==
    call.pc = "decoded" =>
        /\ call.dec.status \in {"ok", "error"}
        /\ OneDelimitedField(call.data) => call.dec.status = "ok"

====
